---- MODULE Spec2Model ----
(***************************************************************************)
(* Thermal-resistance-network solver behind the /thermal/solve endpoint.   *)
(*                                                                         *)
(* Numbers are exact rationals [n, d] (d > 0, lowest terms).  The JSON     *)
(* values of a payload are records [kind, val]: kind "num" is a JSON       *)
(* number, "bool" a JSON boolean (an int in Python: True = 1, False = 0), *)
(* "str" any other JSON value, "absent" a key that is not in the object.   *)
(***************************************************************************)
EXTENDS Integers, Sequences, FiniteSets, TLC

VARIABLES reqs, core

vars == <<reqs, core>>

(***************************************************************************)
(* Bounds of the model.                                                    *)
(***************************************************************************)
\* largest magnitude of an integer argument drawn for a core function
MaxArg == 4
\* largest number of fins drawn for a core function
MaxFins == 4
\* number of fields of the reference payload a request may change
MaxEdits == 2
\* invocations of one sequence of direct calls, requests of one worker
MaxCalls == 3

(***************************************************************************)
(* Exact rational arithmetic (Python float arithmetic without rounding).   *)
(* The special values of a float are the quotients with denominator 0:     *)
(* 1/0 is inf, -1/0 is -inf and 0/0 is nan; the operations treat them as   *)
(* float arithmetic does.                                                  *)
(***************************************************************************)
Abs(x) == IF x < 0 THEN -x ELSE x

RECURSIVE GCD(_, _)
GCD(a, b) == IF b = 0 THEN a ELSE GCD(b, a % b)

Q(n, d) ==
    IF n = 0 /\ d = 0 THEN [n |-> 0, d |-> 0]
    ELSE LET g == GCD(Abs(n), Abs(d))
             s == IF d < 0 THEN -1 ELSE 1
         IN  [n |-> s * (n \div g), d |-> s * (d \div g)]

I(n) == [n |-> n, d |-> 1]
None == [n |-> 0, d |-> 0]

NaN == [n |-> 0, d |-> 0]
PosInf == [n |-> 1, d |-> 0]
NegInf == [n |-> -1, d |-> 0]
IsNaN(a) == a.n = 0 /\ a.d = 0
IsFinite(a) == a.d # 0

\* products and sums cancel common factors first, so that they stay small;
\* inf * 0 and inf - inf are nan
Mul(a, b) ==
    IF a.d = 0 \/ b.d = 0 THEN Q(a.n * b.n, 0)
    ELSE LET x == Q(a.n, b.d)
             y == Q(b.n, a.d)
         IN  [n |-> x.n * y.n, d |-> x.d * y.d]
Div(a, b) == IF IsNaN(b) THEN NaN ELSE Mul(a, Q(b.d, b.n))
Add(a, b) ==
    IF a.d = 0 \/ b.d = 0
        THEN IF IsNaN(a) \/ IsNaN(b) THEN NaN
             ELSE IF a.d # 0 THEN b
             ELSE IF b.d # 0 \/ a = b THEN a
             ELSE NaN
    ELSE LET g == GCD(a.d, b.d)
         IN  Q(a.n * (b.d \div g) + b.n * (a.d \div g), (a.d \div g) * b.d)
Neg(a) == [n |-> -a.n, d |-> a.d]
Sub(a, b) == Add(a, Neg(b))
Lt(a, b) ==
    IF a.d = 0 \/ b.d = 0
        THEN /\ ~IsNaN(a)
             /\ ~IsNaN(b)
             /\ (IF a.d = 0 THEN a.n ELSE 0) < (IF b.d = 0 THEN b.n ELSE 0)
    ELSE LET g == GCD(a.d, b.d)
         IN  a.n * (b.d \div g) < b.n * (a.d \div g)
Le(a, b) == ~Lt(b, a) /\ ~IsNaN(a) /\ ~IsNaN(b)
Eq(a, b) == Le(a, b) /\ Le(b, a)
LeZero(a) == a.n < 0 \/ (a.n = 0 /\ a.d # 0)
LtZero(a) == a.n < 0
IsPos(a) == a.d > 0 /\ a.n > 0

(***************************************************************************)
(* Outcome of a call: a returned value or a raised exception.              *)
(***************************************************************************)
Return(v) == [ok |-> TRUE, val |-> v, cls |-> "", msg |-> ""]
Raise(c, m) == [ok |-> FALSE, val |-> None, cls |-> c, msg |-> m]

(***************************************************************************)
(* core/geometry.py                                                        *)
(***************************************************************************)
compute_die_area(die_length, die_width) ==
    IF LeZero(die_length) THEN Raise("ValueError", "Die length must be positive")
    ELSE IF LeZero(die_width) THEN Raise("ValueError", "Die width must be positive")
    ELSE Return(Mul(die_length, die_width))

InfeasibleMsg == "Invalid fin geometry: fins occupy entire sink width"

compute_fin_spacing_AllowZeroGap(sink_width, number_of_fins, fin_thickness) ==
    IF LeZero(sink_width) THEN Raise("ValueError", "Sink width must be positive")
    ELSE IF Le(number_of_fins, I(1))
        THEN Raise("ValueError", "Number of fins must be greater than 1")
    ELSE IF LeZero(fin_thickness)
        THEN Raise("ValueError", "Fin thickness must be positive")
    ELSE LET usable_width == Sub(sink_width, Mul(number_of_fins, fin_thickness))
         IN  IF LtZero(usable_width) THEN Raise("ValueError", InfeasibleMsg)
             ELSE Return(Div(usable_width, Sub(number_of_fins, I(1))))

compute_fin_spacing_SameMessage(sink_width, number_of_fins, fin_thickness) ==
    IF LeZero(sink_width) THEN Raise("ValueError", "Sink width must be positive")
    ELSE IF Le(number_of_fins, I(1))
        THEN Raise("ValueError", "Number of fins must be greater than 1")
    ELSE IF LeZero(fin_thickness)
        THEN Raise("ValueError", "Fin thickness must be positive")
    ELSE LET usable_width == Sub(sink_width, Mul(number_of_fins, fin_thickness))
         IN  IF LeZero(usable_width)
                THEN Raise("ValueError", "Sink width must be positive")
             ELSE Return(Div(usable_width, Sub(number_of_fins, I(1))))

compute_fin_spacing_FeasibilityFirst(sink_width, number_of_fins, fin_thickness) ==
    LET usable_width == Sub(sink_width, Mul(number_of_fins, fin_thickness))
    IN  IF LeZero(usable_width) THEN Raise("ValueError", InfeasibleMsg)
        ELSE IF LeZero(sink_width)
            THEN Raise("ValueError", "Sink width must be positive")
        ELSE IF Le(number_of_fins, I(1))
            THEN Raise("ValueError", "Number of fins must be greater than 1")
        ELSE IF LeZero(fin_thickness)
            THEN Raise("ValueError", "Fin thickness must be positive")
        ELSE Return(Div(usable_width, Sub(number_of_fins, I(1))))

compute_fin_spacing(sink_width, number_of_fins, fin_thickness) ==
    IF LeZero(sink_width) THEN Raise("ValueError", "Sink width must be positive")
    ELSE IF Le(number_of_fins, I(1))
        THEN Raise("ValueError", "Number of fins must be greater than 1")
    ELSE IF LeZero(fin_thickness)
        THEN Raise("ValueError", "Fin thickness must be positive")
    ELSE LET usable_width == Sub(sink_width, Mul(number_of_fins, fin_thickness))
         IN  IF LeZero(usable_width) THEN Raise("ValueError", InfeasibleMsg)
             ELSE Return(Div(usable_width, Sub(number_of_fins, I(1))))

compute_total_convection_area_Unscaled(fin_height, sink_length, number_of_fins) ==
    IF LeZero(fin_height) THEN Raise("ValueError", "Fin height must be positive")
    ELSE IF LeZero(sink_length) THEN Raise("ValueError", "Sink length must be positive")
    ELSE IF LeZero(number_of_fins)
        THEN Raise("ValueError", "Number of fins must be positive")
    ELSE Return(Mul(Mul(number_of_fins, fin_height), sink_length))

compute_total_convection_area(fin_height, sink_length, number_of_fins) ==
    IF LeZero(fin_height) THEN Raise("ValueError", "Fin height must be positive")
    ELSE IF LeZero(sink_length) THEN Raise("ValueError", "Sink length must be positive")
    ELSE IF LeZero(number_of_fins)
        THEN Raise("ValueError", "Number of fins must be positive")
    ELSE Return(Mul(Mul(Mul(I(2), number_of_fins), fin_height), sink_length))

(***************************************************************************)
(* core/tim.py, core/conduction.py                                         *)
(***************************************************************************)
compute_tim_resistance_AllowZeroThickness(tim_thickness, tim_thermal_conductivity, die_area) ==
    IF LtZero(tim_thickness) THEN Raise("ValueError", "TIM thickness must be positive")
    ELSE IF LeZero(tim_thermal_conductivity)
        THEN Raise("ValueError", "TIM thermal conductivity must be positive")
    ELSE IF LeZero(die_area) THEN Raise("ValueError", "Die area must be positive")
    ELSE Return(Div(tim_thickness, Mul(tim_thermal_conductivity, die_area)))

compute_tim_resistance(tim_thickness, tim_thermal_conductivity, die_area) ==
    IF LeZero(tim_thickness) THEN Raise("ValueError", "TIM thickness must be positive")
    ELSE IF LeZero(tim_thermal_conductivity)
        THEN Raise("ValueError", "TIM thermal conductivity must be positive")
    ELSE IF LeZero(die_area) THEN Raise("ValueError", "Die area must be positive")
    ELSE Return(Div(tim_thickness, Mul(tim_thermal_conductivity, die_area)))

compute_conduction_resistance(base_thickness, thermal_conductivity, die_area) ==
    IF LeZero(base_thickness) THEN Raise("ValueError", "Base thickness must be positive")
    ELSE IF LeZero(thermal_conductivity)
        THEN Raise("ValueError", "Thermal conductivity must be positive")
    ELSE IF LeZero(die_area) THEN Raise("ValueError", "Die area must be positive")
    ELSE Return(Div(base_thickness, Mul(thermal_conductivity, die_area)))

(***************************************************************************)
(* Decimal stand-ins for the float operations ** and math.tanh: a result   *)
(* is truncated to a decimal grid, every other operation is exact.         *)
(***************************************************************************)
RECURSIVE IPow(_, _)
IPow(b, e) == IF e = 0 THEN 1 ELSE b * IPow(b, e - 1)

\* floor(n * 10^k / d) for n >= 0, digit by digit
RECURSIVE FixR(_, _, _, _)
FixR(acc, rem, d, k) ==
    IF k = 0 THEN acc
    ELSE FixR(acc * 10 + (rem * 10) \div d, (rem * 10) % d, d, k - 1)

Fix(q, k) == FixR(q.n \div q.d, q.n % q.d, q.d, k)

\* truncation of a positive number to four significant decimal digits
RECURSIVE SigR(_, _, _, _)
SigR(acc, rem, d, k) ==
    IF k < 8 /\ acc < 1000
        THEN SigR(acc * 10 + (rem * 10) \div d, (rem * 10) % d, d, k + 1)
    ELSE Q(acc, IPow(10, k))

Sig(q) == IF q.n <= 0 \/ q.d = 0 THEN q ELSE SigR(q.n \div q.d, q.n % q.d, q.d, 0)

\* truncation of a positive number to four decimal places
Dec4(q) == Q(Fix(q, 4), 10000)

\* largest r in lo..hi with r^k <= x
RECURSIVE IRoot(_, _, _, _)
IRoot(lo, hi, x, k) ==
    IF lo >= hi THEN lo
    ELSE LET mid == (lo + hi + 1) \div 2
         IN  IF IPow(mid, k) <= x THEN IRoot(mid, hi, x, k)
             ELSE IRoot(lo, mid - 1, x, k)

\* q ** 0.5
Sqrt(q) ==
    LET s == Sig(q)
    IN  IF s.d = 0 THEN s
        ELSE IF Lt(s, I(20)) THEN Q(IRoot(0, 46340, Fix(s, 8), 2), 10000)
        ELSE IF Lt(s, I(200000)) THEN Q(IRoot(0, 46340, Fix(s, 4), 2), 100)
        ELSE Q(IRoot(0, 46340, Fix(s, 0), 2), 1)

\* q ** (1.0 / 3.0)
Cbrt(q) ==
    LET s == Sig(q)
    IN  IF Lt(s, I(2)) THEN Q(IRoot(0, 1290, Fix(s, 9), 3), 1000)
        ELSE IF Lt(s, I(2000)) THEN Q(IRoot(0, 1290, Fix(s, 6), 3), 100)
        ELSE IF Lt(s, I(2000000)) THEN Q(IRoot(0, 1290, Fix(s, 3), 3), 10)
        ELSE Q(IRoot(0, 1290, Fix(s, 0), 3), 1)

\* q ** 0.2: a one-digit fifth root refined by one Newton step
Root5(q) ==
    LET s  == Sig(q)
        r0 == IF Lt(s, I(20000)) THEN Q(IRoot(1, 73, Fix(s, 5), 5), 10)
              ELSE Q(IRoot(1, 73, Fix(s, 0), 5), 1)
        r4 == Mul(Mul(r0, r0), Mul(r0, r0))
    IN  Sig(Div(Add(Mul(I(4), r0), Sig(Div(s, r4))), I(5)))

\* q ** 0.8 = q / q ** 0.2
Pow08(q) == Sig(Div(Sig(q), Root5(q)))

\* q ** 0.3 = q ** 0.2 * (q ** 0.2) ** 0.5
Pow03(q) == Sig(Mul(Root5(q), Sqrt(Root5(q))))

\* e^k for k = 0..9, four significant digits
ExpInt(k) ==
    CASE k = 0 -> I(1)
      [] k = 1 -> Q(2718, 1000)
      [] k = 2 -> Q(7389, 1000)
      [] k = 3 -> Q(2008, 100)
      [] k = 4 -> Q(5459, 100)
      [] k = 5 -> Q(1484, 10)
      [] k = 6 -> Q(4034, 10)
      [] k = 7 -> I(1096)
      [] k = 8 -> I(2980)
      [] OTHER -> I(8103)

\* e^(a/10) for a = 0..9, four significant digits
ExpTenth(a) ==
    CASE a = 0 -> I(1)
      [] a = 1 -> Q(1105, 1000)
      [] a = 2 -> Q(1221, 1000)
      [] a = 3 -> Q(1349, 1000)
      [] a = 4 -> Q(1491, 1000)
      [] a = 5 -> Q(1648, 1000)
      [] a = 6 -> Q(1822, 1000)
      [] a = 7 -> Q(2013, 1000)
      [] a = 8 -> Q(2225, 1000)
      [] OTHER -> Q(2459, 1000)

\* e^(b/100) for b = 0..9, four significant digits
ExpHundredth(b) ==
    CASE b = 0 -> I(1)
      [] b = 1 -> Q(1010, 1000)
      [] b = 2 -> Q(1020, 1000)
      [] b = 3 -> Q(1030, 1000)
      [] b = 4 -> Q(1040, 1000)
      [] b = 5 -> Q(1051, 1000)
      [] b = 6 -> Q(1061, 1000)
      [] b = 7 -> Q(1072, 1000)
      [] b = 8 -> Q(1083, 1000)
      [] OTHER -> Q(1094, 1000)

\* e^f for 0 <= f < 1 (f on a grid of 1/100): e^(a/10) * e^(b/100)
ExpFrac(f) ==
    LET a == Fix(f, 2)
    IN  Sig(Mul(ExpTenth(a \div 10), ExpHundredth(a % 10)))

Tanh_Rational(x) == Sig(Div(x, Add(I(1), x)))

\* math.tanh(x) for x > 0: (e^2x - 1) / (e^2x + 1), which is 0.9999 to four
\* digits from 2x = 10 on
Tanh(x) ==
    LET y == Sig(Mul(I(2), x))
        k == y.n \div y.d
        E == Sig(Mul(ExpInt(k), ExpFrac(Q(y.n % y.d, y.d))))
    IN  IF x.d = 0 THEN Q(x.n, Abs(x.n))
        ELSE IF k >= 10 THEN Q(9999, 10000)
        ELSE Sig(Div(Sub(E, I(1)), Add(E, I(1))))

(***************************************************************************)
(* core/convection.py                                                      *)
(***************************************************************************)
ReLaminarLimit == 2300
MLSwitch == 10

compute_reynolds_number_IgnoreVelocity(air_velocity, characteristic_length, kinematic_viscosity) ==
    IF LeZero(air_velocity) THEN Raise("ValueError", "Air velocity must be positive")
    ELSE IF LeZero(characteristic_length)
        THEN Raise("ValueError", "Characteristic length must be positive")
    ELSE IF LeZero(kinematic_viscosity)
        THEN Raise("ValueError", "Kinematic viscosity must be positive")
    ELSE Return(Div(characteristic_length, kinematic_viscosity))

compute_reynolds_number(air_velocity, characteristic_length, kinematic_viscosity) ==
    IF LeZero(air_velocity) THEN Raise("ValueError", "Air velocity must be positive")
    ELSE IF LeZero(characteristic_length)
        THEN Raise("ValueError", "Characteristic length must be positive")
    ELSE IF LeZero(kinematic_viscosity)
        THEN Raise("ValueError", "Kinematic viscosity must be positive")
    ELSE Return(Div(Mul(air_velocity, characteristic_length), kinematic_viscosity))

compute_nusselt_number_InclusiveLaminar(reynolds_number, prandtl_number, fin_spacing, fin_height) ==
    IF LeZero(reynolds_number) THEN Raise("ValueError", "Reynolds number must be positive")
    ELSE IF LeZero(prandtl_number)
        THEN Raise("ValueError", "Prandtl number must be positive")
    ELSE IF LeZero(fin_spacing) THEN Raise("ValueError", "Fin spacing must be positive")
    ELSE IF LeZero(fin_height) THEN Raise("ValueError", "Fin height must be positive")
    ELSE IF Le(reynolds_number, I(ReLaminarLimit))
        THEN Return(Sig(Mul(Q(186, 100),
                 Cbrt(Mul(Sig(Mul(reynolds_number, prandtl_number)),
                          Sig(Div(Mul(I(2), fin_spacing), fin_height)))))))
    ELSE Return(Sig(Mul(Mul(Q(23, 1000), Pow08(reynolds_number)),
                        Pow03(prandtl_number))))

compute_nusselt_number(reynolds_number, prandtl_number, fin_spacing, fin_height) ==
    IF LeZero(reynolds_number) THEN Raise("ValueError", "Reynolds number must be positive")
    ELSE IF LeZero(prandtl_number)
        THEN Raise("ValueError", "Prandtl number must be positive")
    ELSE IF LeZero(fin_spacing) THEN Raise("ValueError", "Fin spacing must be positive")
    ELSE IF LeZero(fin_height) THEN Raise("ValueError", "Fin height must be positive")
    ELSE IF Lt(reynolds_number, I(ReLaminarLimit))
        THEN Return(Sig(Mul(Q(186, 100),
                 Cbrt(Mul(Sig(Mul(reynolds_number, prandtl_number)),
                          Sig(Div(Mul(I(2), fin_spacing), fin_height)))))))
    ELSE Return(Sig(Mul(Mul(Q(23, 1000), Pow08(reynolds_number)),
                        Pow03(prandtl_number))))

compute_heat_transfer_coefficient_SingleSpacing(nusselt_number, air_thermal_conductivity, fin_spacing) ==
    IF LeZero(nusselt_number) THEN Raise("ValueError", "Nusselt number must be positive")
    ELSE IF LeZero(air_thermal_conductivity)
        THEN Raise("ValueError", "Air thermal conductivity must be positive")
    ELSE IF LeZero(fin_spacing) THEN Raise("ValueError", "Fin spacing must be positive")
    ELSE Return(Sig(Div(Mul(nusselt_number, Sig(air_thermal_conductivity)),
                        Sig(fin_spacing))))

compute_heat_transfer_coefficient(nusselt_number, air_thermal_conductivity, fin_spacing) ==
    IF LeZero(nusselt_number) THEN Raise("ValueError", "Nusselt number must be positive")
    ELSE IF LeZero(air_thermal_conductivity)
        THEN Raise("ValueError", "Air thermal conductivity must be positive")
    ELSE IF LeZero(fin_spacing) THEN Raise("ValueError", "Fin spacing must be positive")
    ELSE Return(Sig(Div(Mul(nusselt_number, Sig(air_thermal_conductivity)),
                        Sig(Mul(I(2), fin_spacing)))))

compute_fin_efficiency_SwitchAtTen(fin_height, heat_transfer_coefficient, fin_thickness, thermal_conductivity) ==
    IF LeZero(fin_height) THEN Raise("ValueError", "Fin height must be positive")
    ELSE IF LeZero(heat_transfer_coefficient)
        THEN Raise("ValueError", "Heat transfer coefficient must be positive")
    ELSE IF LeZero(fin_thickness) THEN Raise("ValueError", "Fin thickness must be positive")
    ELSE IF LeZero(thermal_conductivity)
        THEN Raise("ValueError", "Thermal conductivity must be positive")
    ELSE LET m   == Sqrt(Div(Mul(I(2), heat_transfer_coefficient),
                             Sig(Mul(thermal_conductivity, fin_thickness))))
             m_l == Sig(Mul(m, Sig(fin_height)))
         IN  IF Le(I(MLSwitch), m_l) THEN Return(Sig(Div(I(1), m_l)))
             ELSE IF m_l = I(0)
                 THEN Raise("ZeroDivisionError", "float division by zero")
             ELSE Return(Sig(Div(Tanh(m_l), m_l)))

compute_fin_efficiency(fin_height, heat_transfer_coefficient, fin_thickness, thermal_conductivity) ==
    IF LeZero(fin_height) THEN Raise("ValueError", "Fin height must be positive")
    ELSE IF LeZero(heat_transfer_coefficient)
        THEN Raise("ValueError", "Heat transfer coefficient must be positive")
    ELSE IF LeZero(fin_thickness) THEN Raise("ValueError", "Fin thickness must be positive")
    ELSE IF LeZero(thermal_conductivity)
        THEN Raise("ValueError", "Thermal conductivity must be positive")
    ELSE LET m   == Sqrt(Div(Mul(I(2), heat_transfer_coefficient),
                             Sig(Mul(thermal_conductivity, fin_thickness))))
             m_l == Sig(Mul(m, Sig(fin_height)))
         IN  IF Lt(I(MLSwitch), m_l) THEN Return(Sig(Div(I(1), m_l)))
             ELSE IF m_l = I(0)
                 THEN Raise("ZeroDivisionError", "float division by zero")
             ELSE Return(Sig(Div(Tanh(m_l), m_l)))

compute_convection_resistance_AreaLast(air_velocity, fin_spacing, fin_height, total_convection_area, air_thermal_conductivity, kinematic_viscosity, prandtl_number, fin_thickness, sink_thermal_conductivity) ==
    LET re == compute_reynolds_number(air_velocity, fin_spacing, kinematic_viscosity)
    IN  IF ~re.ok THEN re
    ELSE LET nu == compute_nusselt_number(re.val, prandtl_number, fin_spacing,
                                          fin_height)
    IN  IF ~nu.ok THEN nu
    ELSE LET h == compute_heat_transfer_coefficient(nu.val, air_thermal_conductivity,
                                                    fin_spacing)
    IN  IF ~h.ok THEN h
    ELSE LET eff == compute_fin_efficiency(fin_height, h.val, fin_thickness,
                                           sink_thermal_conductivity)
    IN  IF ~eff.ok THEN eff
    ELSE IF LeZero(total_convection_area)
        THEN Raise("ValueError", "Total convection area must be positive")
    ELSE Return(Dec4(Div(I(1),
             Sig(Mul(Sig(Mul(h.val, Sig(total_convection_area))), eff.val)))))

compute_convection_resistance(air_velocity, fin_spacing, fin_height, total_convection_area, air_thermal_conductivity, kinematic_viscosity, prandtl_number, fin_thickness, sink_thermal_conductivity) ==
    IF LeZero(total_convection_area)
        THEN Raise("ValueError", "Total convection area must be positive")
    ELSE LET re == compute_reynolds_number(air_velocity, fin_spacing,
                                           kinematic_viscosity)
         IN  IF ~re.ok THEN re
         ELSE LET nu == compute_nusselt_number(re.val, prandtl_number,
                                               fin_spacing, fin_height)
         IN  IF ~nu.ok THEN nu
         ELSE LET h == compute_heat_transfer_coefficient(nu.val,
                                     air_thermal_conductivity, fin_spacing)
         IN  IF ~h.ok THEN h
         ELSE LET eff == compute_fin_efficiency(fin_height, h.val, fin_thickness,
                                                sink_thermal_conductivity)
         IN  IF ~eff.ok THEN eff
         ELSE Return(Dec4(Div(I(1),
                  Sig(Mul(Sig(Mul(h.val, Sig(total_convection_area))), eff.val)))))

(***************************************************************************)
(* core/resistance_network.py                                              *)
(***************************************************************************)
compute_heat_sink_resistance_AllowZeroConvection(conduction_resistance, convection_resistance) ==
    IF LeZero(conduction_resistance)
        THEN Raise("ValueError", "Conduction resistance must be positive")
    ELSE IF LtZero(convection_resistance)
        THEN Raise("ValueError", "Convection resistance must be positive")
    ELSE Return(Add(conduction_resistance, convection_resistance))

compute_heat_sink_resistance_DropConduction(conduction_resistance, convection_resistance) ==
    IF LeZero(conduction_resistance)
        THEN Raise("ValueError", "Conduction resistance must be positive")
    ELSE IF LeZero(convection_resistance)
        THEN Raise("ValueError", "Convection resistance must be positive")
    ELSE Return(convection_resistance)

compute_heat_sink_resistance(conduction_resistance, convection_resistance) ==
    IF LeZero(conduction_resistance)
        THEN Raise("ValueError", "Conduction resistance must be positive")
    ELSE IF LeZero(convection_resistance)
        THEN Raise("ValueError", "Convection resistance must be positive")
    ELSE Return(Add(conduction_resistance, convection_resistance))

compute_total_resistance_RejectZeroCase(junction_to_case_resistance, tim_resistance, heat_sink_resistance) ==
    IF LeZero(junction_to_case_resistance)
        THEN Raise("ValueError", "Junction-to-case resistance cannot be negative")
    ELSE IF LeZero(tim_resistance)
        THEN Raise("ValueError", "TIM resistance must be positive")
    ELSE IF LeZero(heat_sink_resistance)
        THEN Raise("ValueError", "Heat sink resistance must be positive")
    ELSE Return(Add(Add(junction_to_case_resistance, tim_resistance),
                    heat_sink_resistance))

compute_total_resistance(junction_to_case_resistance, tim_resistance, heat_sink_resistance) ==
    IF LtZero(junction_to_case_resistance)
        THEN Raise("ValueError", "Junction-to-case resistance cannot be negative")
    ELSE IF LeZero(tim_resistance)
        THEN Raise("ValueError", "TIM resistance must be positive")
    ELSE IF LeZero(heat_sink_resistance)
        THEN Raise("ValueError", "Heat sink resistance must be positive")
    ELSE Return(Add(Add(junction_to_case_resistance, tim_resistance),
                    heat_sink_resistance))

(***************************************************************************)
(* core/solver.py                                                          *)
(***************************************************************************)
compute_junction_temperature_RejectZeroPower(ambient_temperature, heat_dissipation, total_thermal_resistance) ==
    IF LeZero(total_thermal_resistance)
        THEN Raise("ValueError", "Total thermal resistance must be positive")
    ELSE IF LeZero(heat_dissipation)
        THEN Raise("ValueError", "Heat dissipation cannot be negative")
    ELSE Return(Add(ambient_temperature,
                    Mul(heat_dissipation, total_thermal_resistance)))

compute_junction_temperature_NoRise(ambient_temperature, heat_dissipation, total_thermal_resistance) ==
    IF LeZero(total_thermal_resistance)
        THEN Raise("ValueError", "Total thermal resistance must be positive")
    ELSE IF LtZero(heat_dissipation)
        THEN Raise("ValueError", "Heat dissipation cannot be negative")
    ELSE Return(ambient_temperature)

compute_junction_temperature(ambient_temperature, heat_dissipation, total_thermal_resistance) ==
    IF LeZero(total_thermal_resistance)
        THEN Raise("ValueError", "Total thermal resistance must be positive")
    ELSE IF LtZero(heat_dissipation)
        THEN Raise("ValueError", "Heat dissipation cannot be negative")
    ELSE Return(Add(ambient_temperature,
                    Mul(heat_dissipation, total_thermal_resistance)))

(***************************************************************************)
(* JSON payloads.  A payload is [top, sec, val]: top says whether the      *)
(* body is a JSON object, sec[s] whether section s is an object, absent or *)
(* some other JSON value, val[f] is the value stored at field f.            *)
(***************************************************************************)
Absent == [kind |-> "absent", val |-> None]
StrV == [kind |-> "str", val |-> None]
BoolV(b) == [kind |-> "bool", val |-> IF b THEN I(1) ELSE I(0)]
Num(q) == [kind |-> "num", val |-> q]

Sections == {"processor", "heat_sink", "tim", "air", "ambient"}

REQUIRED_FIELDS ==
    <<"processor", "heat_sink", "tim", "air", "ambient", "junction_to_case_resistance">>

\* the require_number calls of validate, in the order of the code
FieldOrder ==
    << [sec |-> "processor", key |-> "die_length", name |-> "processor.die_length", allow_zero |-> FALSE],
       [sec |-> "processor", key |-> "die_width", name |-> "processor.die_width", allow_zero |-> FALSE],
       [sec |-> "processor", key |-> "power", name |-> "processor.power", allow_zero |-> FALSE],
       [sec |-> "heat_sink", key |-> "sink_length", name |-> "heat_sink.sink_length", allow_zero |-> FALSE],
       [sec |-> "heat_sink", key |-> "sink_width", name |-> "heat_sink.sink_width", allow_zero |-> FALSE],
       [sec |-> "heat_sink", key |-> "base_thickness", name |-> "heat_sink.base_thickness", allow_zero |-> FALSE],
       [sec |-> "heat_sink", key |-> "number_of_fins", name |-> "heat_sink.number_of_fins", allow_zero |-> FALSE],
       [sec |-> "heat_sink", key |-> "fin_thickness", name |-> "heat_sink.fin_thickness", allow_zero |-> FALSE],
       [sec |-> "heat_sink", key |-> "fin_height", name |-> "heat_sink.fin_height", allow_zero |-> FALSE],
       [sec |-> "tim", key |-> "thermal_conductivity", name |-> "tim.thermal_conductivity", allow_zero |-> FALSE],
       [sec |-> "tim", key |-> "thickness", name |-> "tim.thickness", allow_zero |-> FALSE],
       [sec |-> "air", key |-> "velocity", name |-> "air.velocity", allow_zero |-> FALSE],
       [sec |-> "air", key |-> "thermal_conductivity", name |-> "air.thermal_conductivity", allow_zero |-> FALSE],
       [sec |-> "air", key |-> "kinematic_viscosity", name |-> "air.kinematic_viscosity", allow_zero |-> FALSE],
       [sec |-> "air", key |-> "prandtl_number", name |-> "air.prandtl_number", allow_zero |-> FALSE],
       [sec |-> "ambient", key |-> "temperature", name |-> "ambient.temperature", allow_zero |-> TRUE],
       [sec |-> "", key |-> "junction_to_case_resistance", name |-> "junction_to_case_resistance", allow_zero |-> FALSE] >>

RequiredPaths == {FieldOrder[i].name : i \in 1..Len(FieldOrder)}
OptionalPath == "heat_sink.thermal_conductivity"
Paths == RequiredPaths \cup {OptionalPath}

\* `field not in payload` for a top-level field
TopAbsent(p, f) ==
    IF f \in Sections THEN p.sec[f] = "absent" ELSE p.val[f].kind = "absent"

(***************************************************************************)
(* app/schemas/io_models.py                                                *)
(***************************************************************************)
require_number(value, name, allow_zero) ==
    IF value.kind \notin {"num", "bool"}
        THEN Raise("ValueError", name \o " must be a number")
    ELSE IF ~allow_zero /\ LeZero(value.val)
        THEN Raise("ValueError", name \o " must be > 0")
    ELSE Return(None)

RECURSIVE CheckTopLevel(_, _)
CheckTopLevel(p, i) ==
    IF i > Len(REQUIRED_FIELDS) THEN Return(None)
    ELSE IF TopAbsent(p, REQUIRED_FIELDS[i])
        THEN Raise("KeyError", "'" \o REQUIRED_FIELDS[i] \o "'")
    ELSE CheckTopLevel(p, i + 1)

RECURSIVE CheckFields_AbsentAsInvalid(_, _)
CheckFields_AbsentAsInvalid(p, i) ==
    IF i > Len(FieldOrder) THEN Return(None)
    ELSE LET f == FieldOrder[i]
         IN  IF f.sec # "" /\ p.sec[f.sec] = "absent"
                 THEN Raise("KeyError", "'" \o f.sec \o "'")
             ELSE IF f.sec # "" /\ p.sec[f.sec] = "nonobj"
                 THEN Raise("TypeError", "string indices must be integers")
             ELSE LET r == require_number(p.val[f.name], f.name, f.allow_zero)
                  IN  IF ~r.ok THEN r ELSE CheckFields_AbsentAsInvalid(p, i + 1)

RECURSIVE CheckFields(_, _)
CheckFields(p, i) ==
    IF i > Len(FieldOrder) THEN Return(None)
    ELSE LET f == FieldOrder[i]
         IN  IF f.sec # "" /\ p.sec[f.sec] = "absent"
                 THEN Raise("KeyError", "'" \o f.sec \o "'")
             ELSE IF f.sec # "" /\ p.sec[f.sec] = "nonobj"
                 THEN Raise("TypeError", "string indices must be integers")
             ELSE IF p.val[f.name].kind = "absent"
                 THEN Raise("KeyError", "'" \o f.key \o "'")
             ELSE LET r == require_number(p.val[f.name], f.name, f.allow_zero)
                  IN  IF ~r.ok THEN r ELSE CheckFields(p, i + 1)

ThermalRequestSchema_validate_PresenceLast(p) ==
    IF p.top # "obj" THEN Raise("ValueError", "Payload must be a JSON object")
    ELSE LET c == CheckFields(p, 1)
         IN  IF ~c.ok THEN c ELSE CheckTopLevel(p, 1)

ThermalRequestSchema_validate(p) ==
    IF p.top # "obj" THEN Raise("ValueError", "Payload must be a JSON object")
    ELSE LET t == CheckTopLevel(p, 1)
         IN  IF ~t.ok THEN t ELSE CheckFields(p, 1)

ResistanceKeys == {"tim", "conduction", "convection", "heat_sink", "total"}

ThermalResponseSchema_build_NoTotal(r_tim, r_conduction, r_convection, r_heat_sink, r_total, junction_temperature) ==
    [resistances |-> [tim |-> r_tim, conduction |-> r_conduction,
                      convection |-> r_convection, heat_sink |-> r_heat_sink],
     junction_temperature |-> junction_temperature]

ThermalResponseSchema_build(r_tim, r_conduction, r_convection, r_heat_sink, r_total, junction_temperature) ==
    [resistances |-> [tim |-> r_tim, conduction |-> r_conduction,
                      convection |-> r_convection, heat_sink |-> r_heat_sink,
                      total |-> r_total],
     junction_temperature |-> junction_temperature]

(***************************************************************************)
(* Requests.  The reference payload, in units that keep every quantity a   *)
(* small integer, and the payloads that differ from it in a few places.    *)
(***************************************************************************)
BaseValues ==
    [f \in Paths |->
        CASE f = "processor.die_length" -> Num(I(2))
          [] f = "processor.die_width" -> Num(I(1))
          [] f = "processor.power" -> Num(I(3))
          [] f = "heat_sink.sink_length" -> Num(I(2))
          [] f = "heat_sink.sink_width" -> Num(I(10))
          [] f = "heat_sink.base_thickness" -> Num(I(1))
          [] f = "heat_sink.number_of_fins" -> Num(I(3))
          [] f = "heat_sink.fin_thickness" -> Num(I(1))
          [] f = "heat_sink.fin_height" -> Num(I(2))
          [] f = "heat_sink.thermal_conductivity" -> Absent
          [] f = "tim.thermal_conductivity" -> Num(I(2))
          [] f = "tim.thickness" -> Num(I(1))
          [] f = "air.velocity" -> Num(I(1))
          [] f = "air.thermal_conductivity" -> Num(I(1))
          [] f = "air.kinematic_viscosity" -> Num(I(1))
          [] f = "air.prandtl_number" -> Num(I(1))
          [] f = "ambient.temperature" -> Num(I(25))
          [] OTHER -> Num(I(1))]

BasePayload == [top |-> "obj", sec |-> [s \in Sections |-> "obj"], val |-> BaseValues]

\* the sections and fields in a fixed order
SectionSeq == <<"processor", "heat_sink", "tim", "air", "ambient">>
PathSeq == [i \in 1..Len(FieldOrder) |-> FieldOrder[i].name] \o <<OptionalPath>>

\* the values an edit may store at a field
AlternativeSeq(f) ==
    <<Absent, StrV, BoolV(TRUE), Num(I(-1)), Num(I(0)), Num(I(4)),
      IF f = "air.velocity" THEN Num(I(1000)) ELSE Num(Q(1, 2))>>
NumAlternatives == Len(AlternativeSeq(OptionalPath))

\* edit 0 changes nothing, edit 1 makes the body a non-object, the next
\* edits remove a section or make it a non-object, the rest store an
\* alternative value at a field
NumSectionEdits == 2 * Len(SectionSeq)
NumEdits == 1 + NumSectionEdits + NumAlternatives * Len(PathSeq)

ApplyEdit(p, e) ==
    IF e = 0 THEN p
    ELSE IF e = 1 THEN [p EXCEPT !.top = "nonobj"]
    ELSE IF e <= 1 + NumSectionEdits
        THEN LET s == SectionSeq[((e - 2) \div 2) + 1]
             IN  [p EXCEPT !.sec[s] = IF (e - 2) % 2 = 0 THEN "absent" ELSE "nonobj"]
    ELSE LET k == e - 2 - NumSectionEdits
             f == PathSeq[(k \div NumAlternatives) + 1]
         IN  [p EXCEPT !.val[f] = AlternativeSeq(f)[(k % NumAlternatives) + 1]]

RECURSIVE ApplyEdits(_, _, _)
ApplyEdits(p, es, i) ==
    IF i > Len(es) THEN p ELSE ApplyEdits(ApplyEdit(p, es[i]), es, i + 1)

\* the edits of a request, in nondecreasing order
EditLists ==
    {es \in [1..MaxEdits -> 0..NumEdits] :
        \A i \in 1..(MaxEdits - 1) : es[i] <= es[i + 1]}

JsonRequest(p) == [is_json |-> TRUE, parses |-> TRUE, payload |-> p]
NotJsonRequest == [is_json |-> FALSE, parses |-> FALSE, payload |-> BasePayload]
UnparsableRequest == [is_json |-> TRUE, parses |-> FALSE, payload |-> BasePayload]

(***************************************************************************)
(* One request in flight: the position of solve_thermal /                  *)
(* run_thermal_analysis (pc), the locals of run_thermal_analysis, the      *)
(* exception raised, the document returned, the HTTP response, and the     *)
(* core functions invoked so far.                                           *)
(***************************************************************************)
NoExc == Return(None)
NoResponse == [status |-> 0, body |-> [none |-> TRUE]]

NewRequest(r) ==
    [request |-> r, pc |-> "start",
     die_area |-> None, fin_spacing |-> None, convection_area |-> None,
     r_tim |-> None, r_conduction |-> None, r_convection |-> None,
     r_heat_sink |-> None, r_total |-> None, junction_temperature |-> None,
     exc |-> NoExc, results |-> [none |-> TRUE], response |-> NoResponse,
     calls |-> <<>>]

\* payload[section][key] of a validated payload, as a number
Field_SharedPayload(r, f) == reqs[CHOOSE w \in DOMAIN reqs : reqs[w].request.is_json /\ reqs[w].request.parses /\ reqs[w].pc \notin {"start", "validate"} /\ ThermalRequestSchema_validate(reqs[w].request.payload).ok].request.payload.val[f].val

Field(r, f) == r.request.payload.val[f].val

\* data["heat_sink"].get("thermal_conductivity", 167.0)
DefaultSinkConductivity == 167
SinkConductivity_DefaultOnly(r) ==
    Num(I(DefaultSinkConductivity))

SinkConductivity(r) ==
    LET v == r.request.payload.val[OptionalPath]
    IN  IF v.kind = "absent" THEN Num(I(DefaultSinkConductivity)) ELSE v

\* a core function called with an argument that is not a number
WithNumber(v, out) ==
    IF v.kind \in {"num", "bool"} THEN out
    ELSE Raise("TypeError", "'<=' not supported between instances of 'str' and 'int'")

\* one stage of run_thermal_analysis: call fn, bind its value to a local
\* and go on, or leave with its exception
Stage_Substitute(r, fn, out, local, next) == [[r EXCEPT ![local] = IF out.ok THEN out.val ELSE I(1)] EXCEPT !.pc = next, !.calls = Append(@, fn)]

Stage(r, fn, out, local, next) ==
    IF out.ok
        THEN [[r EXCEPT ![local] = out.val] EXCEPT !.pc = next,
                                                   !.calls = Append(@, fn)]
    ELSE [r EXCEPT !.pc = "raised", !.exc = out, !.calls = Append(@, fn)]

NoCall == [fn |-> "", args |-> <<>>, out |-> NoExc, done |-> FALSE]

Workers == {1}

Init ==
    /\ \/ \E es \in EditLists :
             reqs = [w \in Workers |->
                        NewRequest(JsonRequest(ApplyEdits(BasePayload, es, 1)))]
       \/ reqs \in [Workers -> {NewRequest(NotJsonRequest),
                                 NewRequest(UnparsableRequest)}]
    /\ core = NoCall

(***************************************************************************)
(* app/routes/thermal_routes.py: solve_thermal, up to the call of          *)
(* run_thermal_analysis                                                    *)
(***************************************************************************)
JsonRequired == [status |-> 400, body |-> [error |-> "Request must be JSON"]]
\* request.get_json() on a body that is not JSON: the framework answers 400
BadRequest == [status |-> 400, body |-> [html |-> "Bad Request"]]

Receive_SilentParse(w) ==
    /\ reqs[w].pc = "start"
    /\ LET r == reqs[w]
       IN  reqs' = [reqs EXCEPT ![w] =
               IF ~r.request.is_json
                   THEN [r EXCEPT !.pc = "done", !.response = JsonRequired]
               ELSE [r EXCEPT !.pc = "validate"]]
    /\ UNCHANGED core

Receive(w) ==
    /\ reqs[w].pc = "start"
    /\ LET r == reqs[w]
       IN  reqs' = [reqs EXCEPT ![w] =
               IF ~r.request.is_json
                   THEN [r EXCEPT !.pc = "done", !.response = JsonRequired]
               ELSE IF ~r.request.parses
                   THEN [r EXCEPT !.pc = "done", !.response = BadRequest]
               ELSE [r EXCEPT !.pc = "validate"]]
    /\ UNCHANGED core

(***************************************************************************)
(* app/services/thermal_service.py: run_thermal_analysis, stage by stage  *)
(***************************************************************************)
Validate(w) ==
    /\ reqs[w].pc = "validate"
    /\ LET out == ThermalRequestSchema_validate(reqs[w].request.payload)
       IN  reqs' = [reqs EXCEPT ![w] =
               IF out.ok THEN [@ EXCEPT !.pc = "die_area"]
               ELSE [@ EXCEPT !.pc = "raised", !.exc = out]]
    /\ UNCHANGED core

DieArea(w) ==
    /\ reqs[w].pc = "die_area"
    /\ LET r == reqs[w]
       IN  reqs' = [reqs EXCEPT ![w] = Stage(r, "compute_die_area",
               compute_die_area(Field(r, "processor.die_length"),
                                Field(r, "processor.die_width")),
               "die_area", "fin_spacing")]
    /\ UNCHANGED core

FinSpacing(w) ==
    /\ reqs[w].pc = "fin_spacing"
    /\ LET r == reqs[w]
       IN  reqs' = [reqs EXCEPT ![w] = Stage(r, "compute_fin_spacing",
               compute_fin_spacing(Field(r, "heat_sink.sink_width"),
                                   Field(r, "heat_sink.number_of_fins"),
                                   Field(r, "heat_sink.fin_thickness")),
               "fin_spacing", "convection_area")]
    /\ UNCHANGED core

ConvectionArea(w) ==
    /\ reqs[w].pc = "convection_area"
    /\ LET r == reqs[w]
       IN  reqs' = [reqs EXCEPT ![w] = Stage(r, "compute_total_convection_area",
               compute_total_convection_area(Field(r, "heat_sink.fin_height"),
                                             Field(r, "heat_sink.sink_length"),
                                             Field(r, "heat_sink.number_of_fins")),
               "convection_area", "tim")]
    /\ UNCHANGED core

TimResistance(w) ==
    /\ reqs[w].pc = "tim"
    /\ LET r == reqs[w]
       IN  reqs' = [reqs EXCEPT ![w] = Stage(r, "compute_tim_resistance",
               compute_tim_resistance(Field(r, "tim.thickness"),
                                      Field(r, "tim.thermal_conductivity"),
                                      r.die_area),
               "r_tim", "conduction")]
    /\ UNCHANGED core

ConductionResistance(w) ==
    /\ reqs[w].pc = "conduction"
    /\ LET r == reqs[w]
           k == SinkConductivity(r)
       IN  reqs' = [reqs EXCEPT ![w] = Stage(r, "compute_conduction_resistance",
               WithNumber(k, compute_conduction_resistance(
                                 Field(r, "heat_sink.base_thickness"), k.val,
                                 r.die_area)),
               "r_conduction", "convection")]
    /\ UNCHANGED core

ConvectionResistance(w) ==
    /\ reqs[w].pc = "convection"
    /\ LET r == reqs[w]
           k == SinkConductivity(r)
       IN  reqs' = [reqs EXCEPT ![w] = Stage(r, "compute_convection_resistance",
               WithNumber(k, compute_convection_resistance(
                                 Field(r, "air.velocity"), r.fin_spacing,
                                 Field(r, "heat_sink.fin_height"),
                                 r.convection_area,
                                 Field(r, "air.thermal_conductivity"),
                                 Field(r, "air.kinematic_viscosity"),
                                 Field(r, "air.prandtl_number"),
                                 Field(r, "heat_sink.fin_thickness"), k.val)),
               "r_convection", "heat_sink")]
    /\ UNCHANGED core

HeatSinkResistance(w) ==
    /\ reqs[w].pc = "heat_sink"
    /\ LET r == reqs[w]
       IN  reqs' = [reqs EXCEPT ![w] = Stage(r, "compute_heat_sink_resistance",
               compute_heat_sink_resistance(r.r_conduction, r.r_convection),
               "r_heat_sink", "total")]
    /\ UNCHANGED core

TotalResistance(w) ==
    /\ reqs[w].pc = "total"
    /\ LET r == reqs[w]
       IN  reqs' = [reqs EXCEPT ![w] = Stage(r, "compute_total_resistance",
               compute_total_resistance(Field(r, "junction_to_case_resistance"),
                                        r.r_tim, r.r_heat_sink),
               "r_total", "junction")]
    /\ UNCHANGED core

JunctionTemperature(w) ==
    /\ reqs[w].pc = "junction"
    /\ LET r == reqs[w]
       IN  reqs' = [reqs EXCEPT ![w] = Stage(r, "compute_junction_temperature",
               compute_junction_temperature(Field(r, "ambient.temperature"),
                                            Field(r, "processor.power"),
                                            r.r_total),
               "junction_temperature", "build")]
    /\ UNCHANGED core

BuildResponse(w) ==
    /\ reqs[w].pc = "build"
    /\ LET r == reqs[w]
       IN  reqs' = [reqs EXCEPT ![w] = [r EXCEPT
               !.pc = "returned",
               !.results = ThermalResponseSchema_build(r.r_tim, r.r_conduction,
                               r.r_convection, r.r_heat_sink, r.r_total,
                               r.junction_temperature)]]
    /\ UNCHANGED core

(***************************************************************************)
(* app/routes/thermal_routes.py: solve_thermal, the try/except around      *)
(* run_thermal_analysis                                                    *)
(***************************************************************************)
InternalError == "Internal server error"

solve_thermal_response_LeakDetail(r) ==
    IF r.pc = "returned" THEN [status |-> 200, body |-> r.results]
    ELSE IF r.exc.cls = "KeyError"
        THEN [status |-> 400,
              body |-> [error |-> "Missing required field: " \o r.exc.msg]]
    ELSE IF r.exc.cls = "ValueError"
        THEN [status |-> 400, body |-> [error |-> r.exc.msg]]
    ELSE [status |-> 500, body |-> [error |-> r.exc.msg]]

solve_thermal_response(r) ==
    IF r.pc = "returned" THEN [status |-> 200, body |-> r.results]
    ELSE IF r.exc.cls = "KeyError"
        THEN [status |-> 400,
              body |-> [error |-> "Missing required field: " \o r.exc.msg]]
    ELSE IF r.exc.cls = "ValueError"
        THEN [status |-> 400, body |-> [error |-> r.exc.msg]]
    ELSE [status |-> 500, body |-> [error |-> InternalError]]

Respond(w) ==
    /\ reqs[w].pc \in {"returned", "raised"}
    /\ LET r == reqs[w]
       IN  reqs' = [reqs EXCEPT ![w] =
               [r EXCEPT !.pc = "done", !.response = solve_thermal_response(r)]]
    /\ UNCHANGED core

Next ==
    \E w \in Workers :
        \/ Receive(w)
        \/ Validate(w)
        \/ DieArea(w)
        \/ FinSpacing(w)
        \/ ConvectionArea(w)
        \/ TimResistance(w)
        \/ ConductionResistance(w)
        \/ ConvectionResistance(w)
        \/ HeatSinkResistance(w)
        \/ TotalResistance(w)
        \/ JunctionTemperature(w)
        \/ BuildResponse(w)
        \/ Respond(w)

Spec == Init /\ [][Next]_vars

(***************************************************************************)
(* The core functions called directly (as the unit tests do): the initial  *)
(* state draws the function and its arguments from small sets, the action  *)
(* applies the function.  No request is in flight then.                    *)
(***************************************************************************)
Idle == [NewRequest(NotJsonRequest) EXCEPT !.pc = "idle"]

Args == {Q(n, d) : n \in (-MaxArg)..MaxArg, d \in {1, 2}}
FinCounts == {I(n) : n \in (-1)..MaxFins} \cup {Q(3, 2)}

Pending(fn, args) == [fn |-> fn, args |-> args, out |-> NoExc, done |-> FALSE]

InitCore ==
    /\ reqs = [w \in Workers |-> Idle]
    /\ \/ \E sink_width \in Args, number_of_fins \in FinCounts, fin_thickness \in Args :
             core = Pending("compute_fin_spacing",
                            <<sink_width, number_of_fins, fin_thickness>>)
       \/ \E fin_height \in Args, sink_length \in Args, number_of_fins \in FinCounts :
             core = Pending("compute_total_convection_area",
                            <<fin_height, sink_length, number_of_fins>>)
       \/ \E ambient_temperature \in Args, heat_dissipation \in Args,
             total_thermal_resistance \in Args :
             core = Pending("compute_junction_temperature",
                            <<ambient_temperature, heat_dissipation,
                              total_thermal_resistance>>)

Called(fn) ==
    /\ \A w \in Workers : reqs[w].pc = "idle"
    /\ core.fn = fn
    /\ ~core.done

Returned_Counting(out) == core' = [core EXCEPT !.out = IF out.ok THEN Return(Add(out.val, I(Len(core.history)))) ELSE out, !.done = TRUE]

Returned(out) == core' = [core EXCEPT !.out = out, !.done = TRUE]

CallFinSpacing ==
    /\ Called("compute_fin_spacing")
    /\ Returned(compute_fin_spacing(core.args[1], core.args[2], core.args[3]))
    /\ UNCHANGED reqs

CallTotalConvectionArea ==
    /\ Called("compute_total_convection_area")
    /\ Returned(compute_total_convection_area(core.args[1], core.args[2],
                                              core.args[3]))
    /\ UNCHANGED reqs

CallJunctionTemperature ==
    /\ Called("compute_junction_temperature")
    /\ Returned(compute_junction_temperature(core.args[1], core.args[2],
                                             core.args[3]))
    /\ UNCHANGED reqs

NextCore ==
    \/ CallFinSpacing
    \/ CallTotalConvectionArea
    \/ CallJunctionTemperature

SpecCore == InitCore /\ [][NextCore]_vars

\* requests and direct calls together
InitAll == Init \/ InitCore
NextAll == Next \/ NextCore
SpecAll == InitAll /\ [][NextAll]_vars

(***************************************************************************)
(* The resistance functions called directly (tests/test_network.py,        *)
(* tests/test_conduction.py).                                              *)
(***************************************************************************)
InitNetwork ==
    /\ reqs = [w \in Workers |-> Idle]
    /\ \/ \E junction_to_case_resistance \in Args, tim_resistance \in Args,
             heat_sink_resistance \in Args :
             core = Pending("compute_total_resistance",
                            <<junction_to_case_resistance, tim_resistance,
                              heat_sink_resistance>>)
       \/ \E conduction_resistance \in Args, convection_resistance \in Args :
             core = Pending("compute_heat_sink_resistance",
                            <<conduction_resistance, convection_resistance>>)
       \/ \E tim_thickness \in Args, tim_thermal_conductivity \in Args,
             die_area \in Args :
             core = Pending("compute_tim_resistance",
                            <<tim_thickness, tim_thermal_conductivity, die_area>>)
       \/ \E base_thickness \in Args, thermal_conductivity \in Args,
             die_area \in Args :
             core = Pending("compute_conduction_resistance",
                            <<base_thickness, thermal_conductivity, die_area>>)

CallTotalResistance ==
    /\ Called("compute_total_resistance")
    /\ Returned(compute_total_resistance(core.args[1], core.args[2], core.args[3]))
    /\ UNCHANGED reqs

CallHeatSinkResistance ==
    /\ Called("compute_heat_sink_resistance")
    /\ Returned(compute_heat_sink_resistance(core.args[1], core.args[2]))
    /\ UNCHANGED reqs

CallTimResistance ==
    /\ Called("compute_tim_resistance")
    /\ Returned(compute_tim_resistance(core.args[1], core.args[2], core.args[3]))
    /\ UNCHANGED reqs

CallConductionResistance ==
    /\ Called("compute_conduction_resistance")
    /\ Returned(compute_conduction_resistance(core.args[1], core.args[2],
                                              core.args[3]))
    /\ UNCHANGED reqs

NextNetwork ==
    \/ CallTotalResistance
    \/ CallHeatSinkResistance
    \/ CallTimResistance
    \/ CallConductionResistance

SpecNetwork == InitNetwork /\ [][NextNetwork]_vars

(***************************************************************************)
(* The convection functions called directly (tests/test_convection.py).    *)
(* The Reynolds numbers straddle the regime limit, the fin heights and     *)
(* the velocities straddle both the regime limit and the m*L switch.       *)
(***************************************************************************)
ReynoldsNumbers ==
    {I(-1), I(0), I(1), I(500), I(2299), Q(22999, 10), I(2300), I(2301), I(5000)}

FinHeights == Args \cup {Q(249, 100), Q(5, 2), Q(251, 100)}

Velocities == {I(-1), I(0), Q(1, 2), I(1), I(2), I(4), I(2000), I(2300), I(4000)}
Spacings == {I(-1), I(0), I(1)}
Heights == {I(-1), I(0), I(2), I(4)}
Areas == {I(-1), I(0), I(4)}
AirConductivities == {I(-1), I(0), I(1)}
Viscosities == {I(-1), I(0), I(1)}
PrandtlNumbers == {I(-1), I(0), I(1)}
Thicknesses == {I(-1), I(0), Q(1, 2), I(1)}
SinkConductivities == {I(-1), I(0), Q(1, 2), I(DefaultSinkConductivity)}

InitConvection ==
    /\ reqs = [w \in Workers |-> Idle]
    /\ \/ \E reynolds_number \in ReynoldsNumbers, prandtl_number \in Args,
             fin_spacing \in Args, fin_height \in Args :
             core = Pending("compute_nusselt_number",
                            <<reynolds_number, prandtl_number, fin_spacing,
                              fin_height>>)
       \/ \E fin_height \in FinHeights, heat_transfer_coefficient \in Args,
             fin_thickness \in Args, thermal_conductivity \in Args :
             core = Pending("compute_fin_efficiency",
                            <<fin_height, heat_transfer_coefficient, fin_thickness,
                              thermal_conductivity>>)
       \/ \E air_velocity \in Velocities, fin_spacing \in Spacings,
             fin_height \in Heights, total_convection_area \in Areas,
             air_thermal_conductivity \in AirConductivities,
             kinematic_viscosity \in Viscosities,
             prandtl_number \in PrandtlNumbers, fin_thickness \in Thicknesses,
             sink_thermal_conductivity \in SinkConductivities :
             core = Pending("compute_convection_resistance",
                            <<air_velocity, fin_spacing, fin_height,
                              total_convection_area, air_thermal_conductivity,
                              kinematic_viscosity, prandtl_number, fin_thickness,
                              sink_thermal_conductivity>>)

CallNusseltNumber ==
    /\ Called("compute_nusselt_number")
    /\ Returned(compute_nusselt_number(core.args[1], core.args[2], core.args[3],
                                       core.args[4]))
    /\ UNCHANGED reqs

CallFinEfficiency ==
    /\ Called("compute_fin_efficiency")
    /\ Returned(compute_fin_efficiency(core.args[1], core.args[2], core.args[3],
                                       core.args[4]))
    /\ UNCHANGED reqs

CallConvectionResistance ==
    /\ Called("compute_convection_resistance")
    /\ Returned(compute_convection_resistance(core.args[1], core.args[2],
                    core.args[3], core.args[4], core.args[5], core.args[6],
                    core.args[7], core.args[8], core.args[9]))
    /\ UNCHANGED reqs

NextConvection ==
    \/ CallNusseltNumber
    \/ CallFinEfficiency
    \/ CallConvectionResistance

SpecConvection == InitConvection /\ [][NextConvection]_vars

(***************************************************************************)
(* Sequences of invocations: up to MaxCalls direct calls of the core       *)
(* functions one after the other, or up to MaxCalls requests served one    *)
(* after the other.  The record of a call keeps the earlier calls of the   *)
(* sequence with their outcomes, the record of a request the earlier       *)
(* requests with their responses; nothing else outlives an invocation.      *)
(***************************************************************************)
\* one call of every core function, some returning a value and some raising;
\* the junction temperature is called both ways
Invocations ==
    {[fn |-> "compute_die_area", args |-> <<I(2), I(1)>>],
     [fn |-> "compute_fin_spacing", args |-> <<I(1), I(3), I(1)>>],
     [fn |-> "compute_total_convection_area", args |-> <<I(2), I(2), I(3)>>],
     [fn |-> "compute_tim_resistance", args |-> <<I(1), I(2), I(2)>>],
     [fn |-> "compute_conduction_resistance",
      args |-> <<I(1), I(DefaultSinkConductivity), I(-1)>>],
     [fn |-> "compute_reynolds_number", args |-> <<I(1), I(1), I(1)>>],
     [fn |-> "compute_nusselt_number",
      args |-> <<I(ReLaminarLimit), I(1), I(1), I(2)>>],
     [fn |-> "compute_heat_transfer_coefficient", args |-> <<I(2), I(0), I(1)>>],
     [fn |-> "compute_fin_efficiency", args |-> <<Q(5, 2), I(2), Q(1, 2), Q(1, 2)>>],
     [fn |-> "compute_convection_resistance",
      args |-> <<I(1), I(1), I(2), I(4), I(1), I(1), I(1), I(1),
                 I(DefaultSinkConductivity)>>],
     [fn |-> "compute_heat_sink_resistance", args |-> <<I(1), I(0)>>],
     [fn |-> "compute_total_resistance", args |-> <<I(0), I(1), I(1)>>],
     [fn |-> "compute_junction_temperature", args |-> <<I(25), I(3), I(1)>>],
     [fn |-> "compute_junction_temperature", args |-> <<I(25), I(-1), I(1)>>]}

\* the call c, made after the calls of history
Invoke(c, history) ==
    [fn |-> c.fn, args |-> c.args, out |-> NoExc, done |-> FALSE,
     history |-> history]

\* the request r, received after the requests of earlier
Submit(r, earlier) ==
    [f \in DOMAIN NewRequest(r) \cup {"earlier"} |->
        IF f = "earlier" THEN earlier ELSE NewRequest(r)[f]]

RepeatRequests ==
    {JsonRequest(ApplyEdit(BasePayload, e)) : e \in 0..NumEdits}
        \cup {NotJsonRequest, UnparsableRequest}

InitRepeat ==
    \/ /\ reqs = [w \in Workers |-> [Submit(NotJsonRequest, <<>>) EXCEPT !.pc = "idle"]]
       /\ \E c \in Invocations : core = Invoke(c, <<>>)
    \/ /\ \E r \in RepeatRequests : reqs = [w \in Workers |-> Submit(r, <<>>)]
       /\ core = Invoke(NoCall, <<>>)

CallDieArea ==
    /\ Called("compute_die_area")
    /\ Returned(compute_die_area(core.args[1], core.args[2]))
    /\ UNCHANGED reqs

CallReynoldsNumber ==
    /\ Called("compute_reynolds_number")
    /\ Returned(compute_reynolds_number(core.args[1], core.args[2], core.args[3]))
    /\ UNCHANGED reqs

CallHeatTransferCoefficient ==
    /\ Called("compute_heat_transfer_coefficient")
    /\ Returned(compute_heat_transfer_coefficient(core.args[1], core.args[2],
                                                  core.args[3]))
    /\ UNCHANGED reqs

\* the next direct call of the sequence
Reinvoke ==
    /\ \A w \in Workers : reqs[w].pc = "idle"
    /\ core.done
    /\ Len(core.history) < MaxCalls - 1
    /\ \E c \in Invocations :
           core' = Invoke(c, Append(core.history,
                       [fn |-> core.fn, args |-> core.args, out |-> core.out]))
    /\ UNCHANGED reqs

\* the next request of the worker: the same request again, an earlier one
\* again, or the reference request
Resubmit(w) ==
    /\ reqs[w].pc = "done"
    /\ Len(reqs[w].earlier) < MaxCalls - 1
    /\ LET r == reqs[w]
       IN  \E q \in {r.request, JsonRequest(BasePayload)}
                       \cup {r.earlier[i].request : i \in DOMAIN r.earlier} :
               reqs' = [reqs EXCEPT ![w] =
                   Submit(q, Append(r.earlier, [request |-> r.request,
                                                response |-> r.response]))]
    /\ UNCHANGED core

NextRepeat ==
    \/ Next
    \/ NextCore
    \/ NextNetwork
    \/ NextConvection
    \/ CallDieArea
    \/ CallReynoldsNumber
    \/ CallHeatTransferCoefficient
    \/ Reinvoke
    \/ \E w \in Workers : Resubmit(w)

SpecRepeat == InitRepeat /\ [][NextRepeat]_vars

(***************************************************************************)
(* run_thermal_analysis and solve_thermal as functions of the request: the *)
(* stages one after the other, without any other request in between.       *)
(***************************************************************************)
Failed(exc) == [results |-> [none |-> TRUE], exc |-> exc]
Completed(results) == [results |-> results, exc |-> NoExc]

run_thermal_analysis(payload) ==
    LET data == ThermalRequestSchema_validate(payload)
        at(f) == payload.val[f].val
        k == IF payload.val[OptionalPath].kind = "absent"
                 THEN Num(I(DefaultSinkConductivity)) ELSE payload.val[OptionalPath]
    IN  IF ~data.ok THEN Failed(data) ELSE
    LET die_area == compute_die_area(at("processor.die_length"), at("processor.die_width"))
    IN  IF ~die_area.ok THEN Failed(die_area) ELSE
    LET fin_spacing == compute_fin_spacing(at("heat_sink.sink_width"),
                           at("heat_sink.number_of_fins"), at("heat_sink.fin_thickness"))
    IN  IF ~fin_spacing.ok THEN Failed(fin_spacing) ELSE
    LET convection_area == compute_total_convection_area(at("heat_sink.fin_height"),
                               at("heat_sink.sink_length"), at("heat_sink.number_of_fins"))
    IN  IF ~convection_area.ok THEN Failed(convection_area) ELSE
    LET r_tim == compute_tim_resistance(at("tim.thickness"),
                     at("tim.thermal_conductivity"), die_area.val)
    IN  IF ~r_tim.ok THEN Failed(r_tim) ELSE
    LET r_conduction == WithNumber(k, compute_conduction_resistance(
                            at("heat_sink.base_thickness"), k.val, die_area.val))
    IN  IF ~r_conduction.ok THEN Failed(r_conduction) ELSE
    LET r_convection == WithNumber(k, compute_convection_resistance(
                            at("air.velocity"), fin_spacing.val,
                            at("heat_sink.fin_height"), convection_area.val,
                            at("air.thermal_conductivity"),
                            at("air.kinematic_viscosity"), at("air.prandtl_number"),
                            at("heat_sink.fin_thickness"), k.val))
    IN  IF ~r_convection.ok THEN Failed(r_convection) ELSE
    LET r_heat_sink == compute_heat_sink_resistance(r_conduction.val, r_convection.val)
    IN  IF ~r_heat_sink.ok THEN Failed(r_heat_sink) ELSE
    LET r_total == compute_total_resistance(at("junction_to_case_resistance"),
                       r_tim.val, r_heat_sink.val)
    IN  IF ~r_total.ok THEN Failed(r_total) ELSE
    LET junction_temperature == compute_junction_temperature(
                                    at("ambient.temperature"), at("processor.power"),
                                    r_total.val)
    IN  IF ~junction_temperature.ok THEN Failed(junction_temperature) ELSE
        Completed(ThermalResponseSchema_build(r_tim.val, r_conduction.val,
                      r_convection.val, r_heat_sink.val, r_total.val,
                      junction_temperature.val))

solve_thermal(request) ==
    IF ~request.is_json THEN JsonRequired
    ELSE IF ~request.parses THEN BadRequest
    ELSE LET out == run_thermal_analysis(request.payload)
         IN  solve_thermal_response(
                 [pc |-> IF out.exc.ok THEN "returned" ELSE "raised",
                  results |-> out.results, exc |-> out.exc])

(***************************************************************************)
(* Requests served in parallel: every worker runs solve_thermal on its own *)
(* request, the stages of the workers interleave in any order.             *)
(***************************************************************************)
ParallelWorkers == {1, 2}

WithValue(p, f, v) == [p EXCEPT !.val[f] = v]

\* requests that end at every stage of the pipeline, and three that succeed
ParallelRequests ==
    {NotJsonRequest, UnparsableRequest, JsonRequest(BasePayload),
     JsonRequest(WithValue(BasePayload, "processor.power", Num(I(4)))),
     JsonRequest(WithValue(BasePayload, "air.velocity", Num(I(1000)))),
     JsonRequest(WithValue(BasePayload, "processor.die_length", Absent)),
     JsonRequest(WithValue(BasePayload, "tim.thickness", Num(I(0)))),
     JsonRequest(WithValue(BasePayload, "heat_sink.number_of_fins", BoolV(TRUE))),
     JsonRequest(WithValue(BasePayload, "heat_sink.fin_thickness", Num(I(4)))),
     JsonRequest(WithValue(BasePayload, OptionalPath, Num(I(-1)))),
     JsonRequest(WithValue(BasePayload, OptionalPath, StrV))}

InitParallel ==
    /\ reqs \in [ParallelWorkers -> {NewRequest(r) : r \in ParallelRequests}]
    /\ core = NoCall

NextParallel ==
    \E w \in ParallelWorkers :
        \/ Receive(w)
        \/ Validate(w)
        \/ DieArea(w)
        \/ FinSpacing(w)
        \/ ConvectionArea(w)
        \/ TimResistance(w)
        \/ ConductionResistance(w)
        \/ ConvectionResistance(w)
        \/ HeatSinkResistance(w)
        \/ TotalResistance(w)
        \/ JunctionTemperature(w)
        \/ BuildResponse(w)
        \/ Respond(w)

SpecParallel == InitParallel /\ [][NextParallel]_vars

(***************************************************************************)
(* The reference case of tests/test_api.py, in SI units, and requests that *)
(* differ from it in the air velocity, the number of fins and the power.   *)
(***************************************************************************)
ReferenceValues ==
    [f \in Paths |->
        CASE f = "processor.die_length" -> Num(Q(525, 10000))
          [] f = "processor.die_width" -> Num(Q(45, 1000))
          [] f = "processor.power" -> Num(I(150))
          [] f = "heat_sink.sink_length" -> Num(Q(9, 100))
          [] f = "heat_sink.sink_width" -> Num(Q(116, 1000))
          [] f = "heat_sink.base_thickness" -> Num(Q(25, 10000))
          [] f = "heat_sink.number_of_fins" -> Num(I(60))
          [] f = "heat_sink.fin_thickness" -> Num(Q(8, 10000))
          [] f = "heat_sink.fin_height" -> Num(Q(245, 10000))
          [] f = "heat_sink.thermal_conductivity" -> Absent
          [] f = "tim.thermal_conductivity" -> Num(I(4))
          [] f = "tim.thickness" -> Num(Q(1, 10000))
          [] f = "air.velocity" -> Num(I(1))
          [] f = "air.thermal_conductivity" -> Num(Q(262, 10000))
          [] f = "air.kinematic_viscosity" -> Num(Q(157, 10000000))
          [] f = "air.prandtl_number" -> Num(Q(71, 100))
          [] f = "ambient.temperature" -> Num(I(25))
          [] OTHER -> Num(Q(1, 10))]

ReferencePayload == [top |-> "obj", sec |-> [s \in Sections |-> "obj"], val |-> ReferenceValues]

ReferenceRequests ==
    {JsonRequest(WithValue(WithValue(WithValue(ReferencePayload,
         "air.velocity", Num(v)), "heat_sink.number_of_fins", Num(n)),
         "processor.power", Num(q))) :
        v \in {I(1), I(2), I(3)}, n \in {I(40), I(60)}, q \in {I(100), I(150)}}

InitReference ==
    /\ reqs \in [Workers -> {NewRequest(r) : r \in ReferenceRequests}]
    /\ core = NoCall

SpecReference == InitReference /\ [][Next]_vars

(***************************************************************************)
(* The core functions called directly with the special values of a float   *)
(* among their arguments.                                                  *)
(***************************************************************************)
FloatArgs == {NaN, PosInf, NegInf, I(-1), I(0), I(1), I(3)}

\* the functions of three arguments that are called here
TernaryFunctions ==
    {"compute_fin_spacing", "compute_total_convection_area",
     "compute_tim_resistance", "compute_conduction_resistance",
     "compute_reynolds_number", "compute_heat_transfer_coefficient",
     "compute_total_resistance", "compute_junction_temperature"}

InitFloat ==
    /\ reqs = [w \in Workers |-> Idle]
    /\ \/ \E fn \in {"compute_die_area", "compute_heat_sink_resistance"},
             a \in FloatArgs, b \in FloatArgs :
             core = Pending(fn, <<a, b>>)
       \/ \E fn \in TernaryFunctions, a \in FloatArgs, b \in FloatArgs, c \in FloatArgs :
             core = Pending(fn, <<a, b, c>>)
       \/ \E fin_height \in FloatArgs, heat_transfer_coefficient \in FloatArgs,
             fin_thickness \in FloatArgs, thermal_conductivity \in FloatArgs :
             core = Pending("compute_fin_efficiency",
                            <<fin_height, heat_transfer_coefficient, fin_thickness,
                              thermal_conductivity>>)

NextFloat ==
    \/ CallDieArea
    \/ CallFinSpacing
    \/ CallTotalConvectionArea
    \/ CallTimResistance
    \/ CallConductionResistance
    \/ CallReynoldsNumber
    \/ CallHeatTransferCoefficient
    \/ CallFinEfficiency
    \/ CallHeatSinkResistance
    \/ CallTotalResistance
    \/ CallJunctionTemperature

SpecFloat == InitFloat /\ [][NextFloat]_vars

(***************************************************************************)
(* Requests whose JSON text holds the literals NaN, Infinity or -Infinity  *)
(* (json.loads reads them as floats) at a field that does not enter the    *)
(* convection correlations, next to requests with ordinary fin values.     *)
(***************************************************************************)
NonFinitePaths ==
    {"processor.die_length", "processor.die_width", "processor.power",
     "heat_sink.base_thickness", "tim.thermal_conductivity", "tim.thickness",
     "ambient.temperature", "junction_to_case_resistance"}

NonFiniteRequests ==
    {JsonRequest(WithValue(BasePayload, f, Num(v))) :
        f \in NonFinitePaths, v \in {NaN, PosInf, NegInf}}
    \cup {JsonRequest(WithValue(BasePayload, "heat_sink.number_of_fins", v)) :
             v \in {Num(I(1)), BoolV(TRUE), Num(Q(3, 2)), Num(I(4)), Num(I(10))}}
    \cup {JsonRequest(WithValue(BasePayload, "heat_sink.fin_thickness", Num(v))) :
             v \in {Q(1, 2), I(4)}}
    \cup {JsonRequest(BasePayload)}

InitNonFinite ==
    /\ reqs \in [Workers -> {NewRequest(r) : r \in NonFiniteRequests}]
    /\ core = NoCall

SpecNonFinite == InitNonFinite /\ [][Next]_vars

(***************************************************************************)
(* Properties of the endpoint (specification Spec).                        *)
(***************************************************************************)
\* the request reached run_thermal_analysis and has been answered
Answered(r) == r.pc = "done" /\ r.request.is_json /\ r.request.parses

Payload(r) == r.request.payload

\* C1: the response is decided by how run_thermal_analysis ended: a returned
\* document gives 200 with that document, a KeyError gives 400 "Missing
\* required field: ...", a ValueError gives 400 with its message, any other
\* exception gives 500 with the fixed message and none of the exception's text.
ResponseByOutcome ==
    \A w \in Workers :
        LET r == reqs[w]
        IN  Answered(r) =>
              /\ r.exc.ok =>
                    /\ r.response = [status |-> 200, body |-> r.results]
                    /\ DOMAIN r.results = {"resistances", "junction_temperature"}
              /\ (~r.exc.ok /\ r.exc.cls = "KeyError") =>
                    r.response = [status |-> 400,
                        body |-> [error |-> "Missing required field: " \o r.exc.msg]]
              /\ (~r.exc.ok /\ r.exc.cls = "ValueError") =>
                    r.response = [status |-> 400, body |-> [error |-> r.exc.msg]]
              /\ (~r.exc.ok /\ r.exc.cls \notin {"KeyError", "ValueError"}) =>
                    /\ r.response = [status |-> 500,
                                     body |-> [error |-> "Internal server error"]]
                    /\ r.response.body.error # r.exc.msg

UnexpectedFailureAnswered ==
    \E w \in Workers :
        /\ Answered(reqs[w])
        /\ reqs[w].exc.cls = "TypeError"
        /\ reqs[w].response.status = 500

\* a required field is absent from an object payload: a top-level field, or
\* a field of a section that is an object
NestedAbsent(p, i) ==
    /\ FieldOrder[i].sec # ""
    /\ p.sec[FieldOrder[i].sec] = "obj"
    /\ p.val[FieldOrder[i].name].kind = "absent"

HasAbsentRequired(p) ==
    /\ p.top = "obj"
    /\ \/ \E i \in 1..Len(REQUIRED_FIELDS) : TopAbsent(p, REQUIRED_FIELDS[i])
       \/ \E i \in 1..Len(FieldOrder) : NestedAbsent(p, i)

ReportedMissing(r) ==
    /\ r.exc.cls = "KeyError"
    /\ r.response = [status |-> 400,
                     body |-> [error |-> "Missing required field: " \o r.exc.msg]]

\* field i is present, a JSON number, and within its sign convention
PassesCheck(p, i) ==
    /\ FieldOrder[i].sec # "" => p.sec[FieldOrder[i].sec] = "obj"
    /\ p.val[FieldOrder[i].name].kind = "num"
    /\ FieldOrder[i].allow_zero \/ IsPos(p.val[FieldOrder[i].name].val)

\* the absence is the first thing validate meets
MissingComesFirst(p) ==
    \/ \E i \in 1..Len(REQUIRED_FIELDS) : TopAbsent(p, REQUIRED_FIELDS[i])
    \/ \E i \in 1..Len(FieldOrder) :
          NestedAbsent(p, i) /\ \A j \in 1..(i - 1) : PassesCheck(p, j)

\* C2 as stated: every payload with an absent required field (its sections
\* being objects) is answered with the missing-field error and no core
\* function has been invoked.
MissingAlwaysReported ==
    \A w \in Workers :
        LET r == reqs[w]
        IN  (/\ Answered(r)
             /\ HasAbsentRequired(Payload(r))
             /\ \A s \in Sections : Payload(r).sec[s] # "nonobj") =>
                ReportedMissing(r) /\ r.calls = <<>>

\* C2 amended: a payload with an absent required field never reaches a core
\* function and is never answered 200; it is answered with the missing-field
\* error when a top-level field is absent, or when every field checked before
\* the absent nested field is a number within its sign convention.
MissingReportedWhenFirst ==
    \A w \in Workers :
        LET r == reqs[w]
        IN  (Answered(r) /\ HasAbsentRequired(Payload(r))) =>
                /\ r.calls = <<>>
                /\ r.response.status # 200
                /\ MissingComesFirst(Payload(r)) => ReportedMissing(r)

NestedMissingAnswered ==
    \E w \in Workers :
        /\ Answered(reqs[w])
        /\ NestedAbsent(Payload(reqs[w]), 11)
        /\ MissingComesFirst(Payload(reqs[w]))
        /\ reqs[w].response.body = [error |-> "Missing required field: 'thickness'"]

\* a required section is not an object, or a required field of an object
\* section is not a JSON number
HasWrongType(p) ==
    /\ p.top = "obj"
    /\ \/ \E s \in Sections : p.sec[s] = "nonobj"
       \/ \E i \in 1..Len(FieldOrder) :
             /\ FieldOrder[i].sec # "" => p.sec[FieldOrder[i].sec] = "obj"
             /\ p.val[FieldOrder[i].name].kind \in {"str", "bool"}

\* field i is present in its section (or at the top level) and require_number
\* rejects its value
InvalidAt(p, i) ==
    /\ FieldOrder[i].sec # "" => p.sec[FieldOrder[i].sec] = "obj"
    /\ p.val[FieldOrder[i].name].kind # "absent"
    /\ ~require_number(p.val[FieldOrder[i].name], FieldOrder[i].name,
                       FieldOrder[i].allow_zero).ok

AcceptedAt(p, i) ==
    /\ FieldOrder[i].sec # "" => p.sec[FieldOrder[i].sec] = "obj"
    /\ p.val[FieldOrder[i].name].kind # "absent"
    /\ require_number(p.val[FieldOrder[i].name], FieldOrder[i].name,
                      FieldOrder[i].allow_zero).ok

TopLevelComplete(p) ==
    \A i \in 1..Len(REQUIRED_FIELDS) : ~TopAbsent(p, REQUIRED_FIELDS[i])

\* C28: validate finishes the presence check of the six top-level fields
\* before any numeric check, so a payload lacking a top-level field is reported
\* as missing whatever invalid values it carries; nested fields are checked in
\* the fixed field order, so an invalid value is reported in preference to a
\* nested field missing after it.
PresenceBeforeNumbers ==
    \A w \in Workers :
        LET r == reqs[w]
            p == Payload(r)
        IN  (Answered(r) /\ p.top = "obj") =>
              /\ (/\ ~TopLevelComplete(p)
                  /\ \E i \in 1..Len(FieldOrder) : InvalidAt(p, i)) =>
                    /\ ReportedMissing(r)
                    /\ \E k \in 1..Len(REQUIRED_FIELDS) :
                          /\ r.exc.msg = "'" \o REQUIRED_FIELDS[k] \o "'"
                          /\ TopAbsent(p, REQUIRED_FIELDS[k])
                          /\ \A j \in 1..(k - 1) : ~TopAbsent(p, REQUIRED_FIELDS[j])
              /\ \A i \in 1..Len(FieldOrder) :
                    (/\ TopLevelComplete(p)
                     /\ InvalidAt(p, i)
                     /\ \A k \in 1..(i - 1) : AcceptedAt(p, k)
                     /\ \E j \in (i + 1)..Len(FieldOrder) : NestedAbsent(p, j)) =>
                       /\ ~ReportedMissing(r)
                       /\ r.exc = require_number(p.val[FieldOrder[i].name],
                                                 FieldOrder[i].name,
                                                 FieldOrder[i].allow_zero)
                       /\ r.response = [status |-> 400,
                                        body |-> [error |-> r.exc.msg]]

MissingTopLevelWithInvalidValue ==
    \E w \in Workers :
        /\ Answered(reqs[w])
        /\ Payload(reqs[w]).top = "obj"
        /\ ~TopLevelComplete(Payload(reqs[w]))
        /\ \E i \in 1..Len(FieldOrder) : InvalidAt(Payload(reqs[w]), i)
        /\ ReportedMissing(reqs[w])

InvalidValueBeforeMissingNested ==
    \E w \in Workers :
        /\ Answered(reqs[w])
        /\ TopLevelComplete(Payload(reqs[w]))
        /\ \E i \in 1..Len(FieldOrder) :
              /\ InvalidAt(Payload(reqs[w]), i)
              /\ \E j \in (i + 1)..Len(FieldOrder) : NestedAbsent(Payload(reqs[w]), j)
        /\ reqs[w].exc.cls = "ValueError"

\* C3: a payload with a wrong-typed value at a required path is answered 400,
\* never 500 and never 200, and no core function has been invoked.
WrongTypeAnswered400 ==
    \A w \in Workers :
        LET r == reqs[w]
        IN  (Answered(r) /\ HasWrongType(Payload(r))) =>
                r.response.status = 400 /\ r.calls = <<>>

\* every section is an object and every required field a JSON number
WellFormed(p) ==
    /\ p.top = "obj"
    /\ \A s \in Sections : p.sec[s] = "obj"
    /\ \A f \in RequiredPaths : p.val[f].kind = "num"

SignConvention(p) ==
    \A f \in RequiredPaths :
        IF f = "ambient.temperature" THEN TRUE
        ELSE IF f = "junction_to_case_resistance" THEN ~LtZero(p.val[f].val)
        ELSE IsPos(p.val[f].val)

Validated(r) == r.request.parses /\ r.pc \notin {"idle", "start", "validate"}
RejectedByValidator(r) == ~r.exc.ok /\ r.calls = <<>>

\* C4: validate accepts a well-formed payload exactly when ambient.temperature
\* is any number, junction_to_case_resistance >= 0 and every other field > 0.
ValidatorFollowsSignConvention ==
    \A w \in Workers :
        LET r == reqs[w]
        IN  (Validated(r) /\ WellFormed(Payload(r))) =>
                (~RejectedByValidator(r) <=> SignConvention(Payload(r)))

Succeeded(r) == Answered(r) /\ r.response.status = 200

\* C5: in a successful response heat_sink = conduction + convection and
\* total = junction_to_case_resistance + tim + heat_sink.
AdditiveComposition ==
    \A w \in Workers :
        LET r == reqs[w]
            b == r.response.body.resistances
        IN  Succeeded(r) =>
              /\ Eq(b.heat_sink, Add(b.conduction, b.convection))
              /\ Eq(b.total, Add(Add(Field(r, "junction_to_case_resistance"), b.tim),
                                 b.heat_sink))

ComposedResponse ==
    \E w \in Workers :
        /\ Succeeded(reqs[w])
        /\ Field(reqs[w], "junction_to_case_resistance") = I(4)
        /\ IsPos(reqs[w].response.body.resistances.conduction)
        /\ IsPos(reqs[w].response.body.resistances.convection)

Ran(fn) == core.fn = fn /\ core.done

FinSpacingContract ==
    LET sw == core.args[1]
        nf == core.args[2]
        ft == core.args[3]
        fails == \/ LeZero(sw)
                 \/ Le(nf, I(1))
                 \/ LeZero(ft)
                 \/ Le(sw, Mul(nf, ft))
    IN  Ran("compute_fin_spacing") =>
          /\ ~core.out.ok <=> fails
          /\ ~core.out.ok => core.out.cls = "ValueError"
          /\ core.out.ok =>
                /\ Eq(core.out.val, Div(Sub(sw, Mul(nf, ft)), Sub(nf, I(1))))
                /\ IsPos(core.out.val)

FullWidthRejected ==
    /\ Ran("compute_fin_spacing")
    /\ core.args = <<I(4), I(4), I(1)>>
    /\ ~core.out.ok

\* C9: when the three arguments are in range and the fins fill the sink width,
\* compute_fin_spacing reports the geometry-infeasibility error, which no
\* range error can be mistaken for.
InfeasibilityDistinct ==
    LET sw == core.args[1]
        nf == core.args[2]
        ft == core.args[3]
        out_of_range == LeZero(sw) \/ Le(nf, I(1)) \/ LeZero(ft)
    IN  Ran("compute_fin_spacing") =>
          /\ (~out_of_range /\ Le(sw, Mul(nf, ft))) =>
                /\ ~core.out.ok
                /\ core.out.msg = "Invalid fin geometry: fins occupy entire sink width"
          /\ out_of_range =>
                /\ ~core.out.ok
                /\ core.out.msg # "Invalid fin geometry: fins occupy entire sink width"

InfeasibilityReported ==
    /\ Ran("compute_fin_spacing")
    /\ IsPos(core.args[1]) /\ Lt(I(1), core.args[2]) /\ IsPos(core.args[3])
    /\ Lt(core.args[1], Mul(core.args[2], core.args[3]))
    /\ core.out.msg = "Invalid fin geometry: fins occupy entire sink width"

\* C27: in compute_fin_spacing the range checks come before the feasibility
\* check: sink_width <= 0, else number_of_fins <= 1, else fin_thickness <= 0
\* is reported as that range error, also when the fins fill the sink width;
\* the infeasibility error is reported only when all three are in range.
RangeChecksFirst ==
    LET sw == core.args[1]
        nf == core.args[2]
        ft == core.args[3]
    IN  Ran("compute_fin_spacing") =>
          /\ LeZero(sw) =>
                (~core.out.ok /\ core.out.msg = "Sink width must be positive")
          /\ (~LeZero(sw) /\ Le(nf, I(1))) =>
                (~core.out.ok /\ core.out.msg = "Number of fins must be greater than 1")
          /\ (~LeZero(sw) /\ ~Le(nf, I(1)) /\ LeZero(ft)) =>
                (~core.out.ok /\ core.out.msg = "Fin thickness must be positive")
          /\ (~core.out.ok /\ core.out.msg = InfeasibleMsg) =>
                (~LeZero(sw) /\ ~Le(nf, I(1)) /\ ~LeZero(ft))

RangeErrorOnFullWidth ==
    /\ Ran("compute_fin_spacing")
    /\ IsPos(core.args[1]) /\ Le(core.args[2], I(1))
    /\ Le(core.args[1], Mul(core.args[2], core.args[3]))
    /\ ~core.out.ok
    /\ core.out.msg = "Number of fins must be greater than 1"

\* C10 as stated: compute_fin_spacing and compute_total_convection_area both
\* fail with a ValueError for every number_of_fins <= 1.
FinCountAboveOneEverywhere ==
    /\ (Ran("compute_fin_spacing") /\ Le(core.args[2], I(1))) =>
          (~core.out.ok /\ core.out.cls = "ValueError")
    /\ (Ran("compute_total_convection_area") /\ Le(core.args[3], I(1))) =>
          (~core.out.ok /\ core.out.cls = "ValueError")

\* C10 amended: compute_fin_spacing fails for every number_of_fins <= 1;
\* compute_total_convection_area fails exactly when fin_height, sink_length
\* or number_of_fins is <= 0 (one fin is accepted) and otherwise returns
\* 2 * number_of_fins * fin_height * sink_length.
FinCountEnforcement ==
    /\ (Ran("compute_fin_spacing") /\ Le(core.args[2], I(1))) =>
          (~core.out.ok /\ core.out.cls = "ValueError")
    /\ Ran("compute_total_convection_area") =>
          LET fh == core.args[1]
              sl == core.args[2]
              nf == core.args[3]
          IN  /\ ~core.out.ok <=> (LeZero(fh) \/ LeZero(sl) \/ LeZero(nf))
              /\ ~core.out.ok => core.out.cls = "ValueError"
              /\ core.out.ok => Eq(core.out.val, Mul(I(2), Mul(nf, Mul(fh, sl))))

SingleFinArea ==
    /\ Ran("compute_total_convection_area")
    /\ core.args[3] = I(1)
    /\ core.out.ok
    /\ Eq(core.out.val, Mul(I(2), Mul(core.args[1], core.args[2])))

(***************************************************************************)
(* Properties of the resistance network and the solver called directly     *)
(* (specifications SpecNetwork and SpecCore).                              *)
(***************************************************************************)
\* C11: compute_total_resistance fails exactly when R_jc < 0, R_tim <= 0 or
\* R_hs <= 0 (so R_jc = 0 is accepted and R_tim = 0 or R_hs = 0 is rejected),
\* and otherwise returns the sum of the three.
TotalResistanceContract ==
    Ran("compute_total_resistance") =>
        LET r_jc == core.args[1]
            r_tim == core.args[2]
            r_hs == core.args[3]
            bad == r_jc.n < 0 \/ r_tim.n <= 0 \/ r_hs.n <= 0
        IN  /\ ~core.out.ok <=> bad
            /\ ~core.out.ok => core.out.cls = "ValueError"
            /\ core.out.ok => Eq(core.out.val, Add(r_jc, Add(r_tim, r_hs)))

\* a junction-to-case resistance of exactly zero was accepted
ZeroCaseResistanceAccepted ==
    /\ Ran("compute_total_resistance")
    /\ core.args[1] = I(0)
    /\ core.out.ok
    /\ Eq(core.out.val, Add(core.args[2], core.args[3]))

\* C12: compute_heat_sink_resistance fails exactly when R_cond <= 0 or
\* R_conv <= 0, and returns a value only when both are strictly positive.
HeatSinkResistanceContract ==
    Ran("compute_heat_sink_resistance") =>
        LET r_cond == core.args[1]
            r_conv == core.args[2]
        IN  /\ ~core.out.ok <=> (r_cond.n <= 0 \/ r_conv.n <= 0)
            /\ ~core.out.ok => core.out.cls = "ValueError"
            /\ core.out.ok => /\ r_cond.n > 0 /\ r_conv.n > 0
                              /\ Eq(core.out.val, Add(r_cond, r_conv))

\* a convection resistance of exactly zero was rejected although the
\* conduction resistance is positive
ZeroConvectionRejected ==
    /\ Ran("compute_heat_sink_resistance")
    /\ core.args[1].n > 0
    /\ core.args[2] = I(0)
    /\ ~core.out.ok

\* C13: compute_junction_temperature fails exactly when R_total <= 0 or Q < 0,
\* whatever the ambient temperature, accepts Q = 0, and otherwise returns
\* T_ambient + Q * R_total.
JunctionTemperatureContract ==
    Ran("compute_junction_temperature") =>
        LET t_amb == core.args[1]
            q == core.args[2]
            r_total == core.args[3]
        IN  /\ ~core.out.ok <=> (r_total.n <= 0 \/ q.n < 0)
            /\ ~core.out.ok => core.out.cls = "ValueError"
            /\ core.out.ok => Eq(core.out.val, Add(t_amb, Mul(q, r_total)))

\* a negative ambient temperature with zero heat dissipation was accepted
\* and returned as the junction temperature
SubZeroAmbientZeroPower ==
    /\ Ran("compute_junction_temperature")
    /\ core.args[1].n < 0
    /\ core.args[2] = I(0)
    /\ core.out.ok
    /\ core.out.val = core.args[1]

\* C19: on identical arguments compute_tim_resistance and
\* compute_conduction_resistance have the same outcome: both fail when any of
\* thickness, conductivity, die area is <= 0, otherwise both return
\* thickness / (conductivity * die_area).
SameOutcome(a, b) ==
    /\ a.ok = b.ok
    /\ a.ok => a.val = b.val
    /\ ~a.ok => a.cls = b.cls

LayerResistanceEquivalence ==
    (Ran("compute_tim_resistance") \/ Ran("compute_conduction_resistance")) =>
        LET thickness == core.args[1]
            conductivity == core.args[2]
            die_area == core.args[3]
            other == IF core.fn = "compute_tim_resistance"
                     THEN compute_conduction_resistance(thickness, conductivity,
                                                        die_area)
                     ELSE compute_tim_resistance(thickness, conductivity, die_area)
        IN  /\ SameOutcome(core.out, other)
            /\ ~core.out.ok <=>
                   (thickness.n <= 0 \/ conductivity.n <= 0 \/ die_area.n <= 0)
            /\ core.out.ok =>
                   Eq(Mul(core.out.val, Mul(conductivity, die_area)), thickness)

\* a TIM call was rejected for a thickness of exactly zero with the other two
\* arguments valid
ZeroThicknessRejected ==
    /\ Ran("compute_tim_resistance")
    /\ core.args[1] = I(0)
    /\ core.args[2].n > 0
    /\ core.args[3].n > 0
    /\ ~core.out.ok

(***************************************************************************)
(* Properties of the convection functions called directly (specification   *)
(* SpecConvection).                                                        *)
(***************************************************************************)
Positive(args) == \A i \in DOMAIN args : args[i].n > 0

\* 1.86 * (Re * Pr * 2 * spacing / height) ** (1/3)
SiederTate(re, pr, spacing, height) ==
    Sig(Mul(Q(186, 100), Cbrt(Mul(Sig(Mul(re, pr)),
                                  Sig(Div(Mul(I(2), spacing), height))))))

\* 0.023 * Re ** 0.8 * Pr ** 0.3
DittusBoelter(re, pr) == Sig(Mul(Mul(Q(23, 1000), Pow08(re)), Pow03(pr)))

\* C14: compute_nusselt_number has a strict threshold at Re = 2300: valid
\* inputs with Re < 2300 get the laminar value, valid inputs with Re >= 2300
\* (2300 included) get the turbulent value, which is the same for every
\* spacing and height.
NusseltRegime ==
    (Ran("compute_nusselt_number") /\ Positive(core.args)) =>
        LET re == core.args[1]
            pr == core.args[2]
        IN  /\ core.out.ok
            /\ Lt(re, I(2300)) =>
                   core.out.val = SiederTate(re, pr, core.args[3], core.args[4])
            /\ ~Lt(re, I(2300)) =>
                   /\ core.out.val = DittusBoelter(re, pr)
                   /\ \A spacing \in Args, height \in Args :
                          (spacing.n > 0 /\ height.n > 0) =>
                              compute_nusselt_number(re, pr, spacing, height)
                                  = core.out

\* a call at Re = 2300 exactly returned the turbulent value, which is not the
\* laminar value of the same arguments
ThresholdIsTurbulent ==
    /\ Ran("compute_nusselt_number")
    /\ Positive(core.args)
    /\ core.args[1] = I(2300)
    /\ core.out.ok
    /\ core.out.val = DittusBoelter(core.args[1], core.args[2])
    /\ core.out.val # SiederTate(core.args[1], core.args[2], core.args[3],
                                 core.args[4])

\* m * L with m = sqrt(2 h / (k_fin * t_fin))
FinParameter(fin_height, h, fin_thickness, k_fin) ==
    Sig(Mul(Sqrt(Div(Mul(I(2), h), Sig(Mul(k_fin, fin_thickness)))),
            Sig(fin_height)))

TanhBranch(m_l) == Sig(Div(Tanh(m_l), m_l))
AsymptoticBranch(m_l) == Sig(Div(I(1), m_l))

\* C15: compute_fin_efficiency fails exactly when fin height, heat-transfer
\* coefficient, fin thickness or conductivity is <= 0; otherwise it returns
\* tanh(m L)/(m L) when m L <= 10 (10 included) and 1/(m L) when m L > 10.
FinEfficiencyContract ==
    Ran("compute_fin_efficiency") =>
        LET m_l == FinParameter(core.args[1], core.args[2], core.args[3],
                                core.args[4])
        IN  /\ core.out.ok <=> Positive(core.args)
            /\ ~core.out.ok => core.out.cls = "ValueError"
            /\ core.out.ok =>
                   IF Le(m_l, I(10)) THEN core.out.val = TanhBranch(m_l)
                   ELSE core.out.val = AsymptoticBranch(m_l)

\* a call with m L = 10 exactly returned the tanh-based value, which is below
\* the asymptotic 1/10
AtSwitchUsesTanh ==
    /\ Ran("compute_fin_efficiency")
    /\ Positive(core.args)
    /\ FinParameter(core.args[1], core.args[2], core.args[3], core.args[4]) = I(10)
    /\ core.out.ok
    /\ core.out.val = TanhBranch(I(10))
    /\ Lt(core.out.val, Q(1, 10))

\* C16: around the switch (9.9 <= m L <= 10.1) the returned efficiency is the
\* value of one branch and the two branches differ there by at most 1e-3
\* relative, so the efficiency does not jump at m L = 10.
NearSwitch(m_l) == Le(Q(99, 10), m_l) /\ Le(m_l, Q(101, 10))

BranchesAgreeAtSwitch ==
    (Ran("compute_fin_efficiency") /\ Positive(core.args)) =>
        LET m_l == FinParameter(core.args[1], core.args[2], core.args[3],
                                core.args[4])
            lower == TanhBranch(m_l)
            upper == AsymptoticBranch(m_l)
        IN  NearSwitch(m_l) =>
                /\ core.out.ok
                /\ core.out.val \in {lower, upper}
                /\ Le(lower, upper)
                /\ Le(Mul(I(1000), Sub(upper, lower)), upper)

\* a call just above the switch returned the asymptotic value
JustAboveSwitch ==
    /\ Ran("compute_fin_efficiency")
    /\ Positive(core.args)
    /\ LET m_l == FinParameter(core.args[1], core.args[2], core.args[3],
                               core.args[4])
       IN  /\ Lt(I(10), m_l)
           /\ NearSwitch(m_l)
           /\ core.out.ok
           /\ core.out.val = AsymptoticBranch(m_l)

\* a call just below the switch returned the tanh-based value
JustBelowSwitch ==
    /\ Ran("compute_fin_efficiency")
    /\ Positive(core.args)
    /\ LET m_l == FinParameter(core.args[1], core.args[2], core.args[3],
                               core.args[4])
       IN  /\ Lt(m_l, I(10))
           /\ NearSwitch(m_l)
           /\ core.out.ok
           /\ core.out.val = TanhBranch(m_l)

AreaMsg == "Total convection area must be positive"

\* C17: compute_convection_resistance raises ValueError whenever one of its
\* nine arguments is <= 0, and when total_convection_area <= 0 the error is
\* the area error whatever the other arguments are.
ConvectionResistanceRejects ==
    Ran("compute_convection_resistance") =>
        /\ ~Positive(core.args) => (~core.out.ok /\ core.out.cls = "ValueError")
        /\ core.args[4].n <= 0 => (~core.out.ok /\ core.out.msg = AreaMsg)
        /\ core.args[4].n > 0 => core.out.msg # AreaMsg

\* a call whose area and air velocity are both invalid failed with the area
\* error
AreaErrorFirst ==
    /\ Ran("compute_convection_resistance")
    /\ core.args[4].n <= 0
    /\ core.args[1].n <= 0
    /\ ~core.out.ok
    /\ core.out.msg = AreaMsg

\* the call of the current state repeated at air velocity v
AtVelocity(v) ==
    compute_convection_resistance(v, core.args[2], core.args[3], core.args[4],
        core.args[5], core.args[6], core.args[7], core.args[8], core.args[9])

Laminar(v) == Lt(Div(Mul(v, core.args[2]), core.args[6]), I(2300))

\* m L of the current call repeated at air velocity v
SwitchParameter(v) ==
    LET re == compute_reynolds_number(v, core.args[2], core.args[6])
        nu == compute_nusselt_number(re.val, core.args[7], core.args[2],
                                     core.args[3])
        h  == compute_heat_transfer_coefficient(nu.val, core.args[5], core.args[2])
    IN  FinParameter(core.args[3], h.val, core.args[8], core.args[9])

\* C18 as stated: for valid inputs and v1 < v2, the resistance at v2 is
\* strictly below the resistance at v1, on whichever side of Re = 2300 and
\* of m L = 10 the two velocities lie.
VelocityMonotoneEverywhere ==
    (Ran("compute_convection_resistance") /\ core.out.ok) =>
        \A v2 \in Velocities :
            Lt(core.args[1], v2) =>
                (AtVelocity(v2).ok /\ Lt(AtVelocity(v2).val, core.out.val))

\* C18 amended: for valid inputs and v1 < v2 in the same flow regime (both
\* Re < 2300 or both Re >= 2300), the resistance at v2 is strictly below the
\* resistance at v1, also across the m L = 10 switch.
VelocityMonotoneWithinRegime ==
    (Ran("compute_convection_resistance") /\ core.out.ok) =>
        \A v2 \in Velocities :
            (Lt(core.args[1], v2) /\ (Laminar(core.args[1]) <=> Laminar(v2))) =>
                (AtVelocity(v2).ok /\ Lt(AtVelocity(v2).val, core.out.val))

\* a call at v1 on the tanh side of the switch whose resistance is above the
\* resistance at a higher velocity of the same regime on the asymptotic side
FasterAcrossSwitch ==
    /\ Ran("compute_convection_resistance")
    /\ core.out.ok
    /\ \E v2 \in Velocities :
           /\ Lt(core.args[1], v2)
           /\ Laminar(core.args[1]) /\ Laminar(v2)
           /\ Le(SwitchParameter(core.args[1]), I(10))
           /\ Lt(I(10), SwitchParameter(v2))
           /\ Lt(AtVelocity(v2).val, core.out.val)

RepeatedRequest ==
    \E w \in Workers :
        /\ reqs[w].pc = "done"
        /\ reqs[w].response.status = 200
        /\ Len(reqs[w].earlier) = 2
        /\ reqs[w].earlier[1].request = reqs[w].request
        /\ reqs[w].earlier[1].response = reqs[w].response
        /\ reqs[w].earlier[2].request # reqs[w].request

(***************************************************************************)
(* Order of the stages (specification Spec).                               *)
(***************************************************************************)
\* the core functions in the order in which run_thermal_analysis calls them
StageOrder ==
    <<"compute_die_area", "compute_fin_spacing", "compute_total_convection_area",
      "compute_tim_resistance", "compute_conduction_resistance",
      "compute_convection_resistance", "compute_heat_sink_resistance",
      "compute_total_resistance", "compute_junction_temperature">>

StageIndex(fn) == CHOOSE i \in 1..Len(StageOrder) : StageOrder[i] = fn

\* the outcome of the fin-spacing stage and of the conduction stage on the
\* values of a validated payload
FinSpacingOutcome(p) ==
    compute_fin_spacing(p.val["heat_sink.sink_width"].val,
                        p.val["heat_sink.number_of_fins"].val,
                        p.val["heat_sink.fin_thickness"].val)

ConductionOutcome(p) ==
    LET k == p.val[OptionalPath]
    IN  IF k.kind = "absent" THEN Return(None)
        ELSE WithNumber(k, compute_conduction_resistance(
                 p.val["heat_sink.base_thickness"].val, k.val,
                 Mul(p.val["processor.die_length"].val,
                     p.val["processor.die_width"].val)))

\* the request ended with exception exc, raised by the stage fn
EndedAt(r, fn, exc) ==
    /\ r.exc = exc
    /\ r.calls = SubSeq(StageOrder, 1, StageIndex(fn))
    /\ r.results = [none |-> TRUE]
    /\ r.pc = "done" => r.response.status # 200

\* C22: run_thermal_analysis is fail-fast.  The core functions are called in
\* the fixed order and none twice; a payload the validator rejects ends the
\* request before any of them is called; a stage that raises ends the
\* request with its exception, the stages after it are not called, no value
\* stands in for the offending one and no document is built; a document is
\* built only after all stages returned.
FailFast ==
    \A w \in Workers :
        LET r == reqs[w]
            p == Payload(r)
            v == ThermalRequestSchema_validate(p)
        IN  /\ Len(r.calls) <= Len(StageOrder)
            /\ r.calls = SubSeq(StageOrder, 1, Len(r.calls))
            /\ r.pc \in {"start", "validate"} => r.calls = <<>>
            /\ ~r.exc.ok =>
                   /\ r.pc \in {"raised", "done"}
                   /\ r.results = [none |-> TRUE]
            /\ r.results # [none |-> TRUE] => (r.exc.ok /\ r.calls = StageOrder)
            /\ (Answered(r) \/ r.pc = "raised") =>
                   /\ ~v.ok => (r.exc = v /\ r.calls = <<>> /\ r.results = [none |-> TRUE])
                   /\ (v.ok /\ ~FinSpacingOutcome(p).ok) =>
                          EndedAt(r, "compute_fin_spacing", FinSpacingOutcome(p))
                   /\ (v.ok /\ FinSpacingOutcome(p).ok /\ ~ConductionOutcome(p).ok) =>
                          EndedAt(r, "compute_conduction_resistance", ConductionOutcome(p))
            /\ (Answered(r) /\ r.response.status = 200) =>
                   (v.ok /\ FinSpacingOutcome(p).ok /\ ConductionOutcome(p).ok)

\* a request whose conduction stage raised was answered: five core functions
\* were called, the convection stage and the stages after it were not
ConductionStageEndedRequest ==
    \E w \in Workers :
        /\ Answered(reqs[w])
        /\ ~reqs[w].exc.ok
        /\ reqs[w].exc.cls = "ValueError"
        /\ Len(reqs[w].calls) = StageIndex("compute_conduction_resistance")
        /\ reqs[w].response.status = 400

\* C25: a request whose body is not declared as JSON, or is declared as
\* JSON and cannot be parsed (an absent body included), never enters
\* run_thermal_analysis (no validation, no core call, no exception, no
\* document) and is answered with status 400.
NonJsonRejected ==
    \A w \in Workers :
        LET r == reqs[w]
        IN  (~r.request.is_json \/ ~r.request.parses) =>
              /\ r.pc \in {"start", "idle", "done"}
              /\ r.calls = <<>>
              /\ r.exc = NoExc
              /\ r.results = [none |-> TRUE]
              /\ r.pc = "done" => r.response.status = 400
              /\ (r.pc = "done" /\ ~r.request.is_json) => r.response = JsonRequired

\* a body declared as JSON that cannot be parsed was answered 400
UnparsableAnswered ==
    \E w \in Workers :
        /\ reqs[w].pc = "done"
        /\ reqs[w].request.is_json
        /\ ~reqs[w].request.parses
        /\ reqs[w].response.status = 400
        /\ reqs[w].calls = <<>>

(***************************************************************************)
(* The optional heat-sink thermal conductivity.                            *)
(***************************************************************************)
WithoutConductivity(p) == [p EXCEPT !.val[OptionalPath] = Absent]

\* the conductivity run_thermal_analysis is to use for payload p
ExpectedConductivity(p) ==
    IF p.val[OptionalPath].kind = "absent" THEN I(167) ELSE p.val[OptionalPath].val

\* C29: validate does not look at heat_sink.thermal_conductivity; an absent
\* value stands for 167.0; the conduction resistance and the convection
\* resistance of one request are computed with the same conductivity; a
\* supplied value <= 0 is rejected by the core and the request answered 400.
OptionalConductivity ==
    \A w \in Workers :
        LET r == reqs[w]
            p == Payload(r)
            k == ExpectedConductivity(p)
        IN  Answered(r) =>
              /\ ThermalRequestSchema_validate(p)
                   = ThermalRequestSchema_validate(WithoutConductivity(p))
              /\ RejectedByValidator(r) <=> ~ThermalRequestSchema_validate(p).ok
              /\ Succeeded(r) =>
                    /\ r.response.body.resistances.conduction =
                          compute_conduction_resistance(
                              Field(r, "heat_sink.base_thickness"), k, r.die_area).val
                    /\ r.response.body.resistances.convection =
                          compute_convection_resistance(
                              Field(r, "air.velocity"), r.fin_spacing,
                              Field(r, "heat_sink.fin_height"), r.convection_area,
                              Field(r, "air.thermal_conductivity"),
                              Field(r, "air.kinematic_viscosity"),
                              Field(r, "air.prandtl_number"),
                              Field(r, "heat_sink.fin_thickness"), k).val
              /\ (/\ ThermalRequestSchema_validate(p).ok
                  /\ p.val[OptionalPath].kind = "num"
                  /\ LeZero(p.val[OptionalPath].val)) =>
                    /\ r.response.status = 400
                    /\ r.calls # <<>>
                    /\ r.results = [none |-> TRUE]
                    /\ Len(r.calls) = StageIndex("compute_conduction_resistance") =>
                          r.response.body.error = "Thermal conductivity must be positive"

NonPositiveConductivityAnswered400 ==
    \E w \in Workers :
        /\ Answered(reqs[w])
        /\ Payload(reqs[w]).val[OptionalPath].kind = "num"
        /\ LeZero(Payload(reqs[w]).val[OptionalPath].val)
        /\ reqs[w].response = [status |-> 400,
                               body |-> [error |-> "Thermal conductivity must be positive"]]

SuppliedConductivityUsed ==
    \E w \in Workers :
        /\ Succeeded(reqs[w])
        /\ Payload(reqs[w]).val[OptionalPath].kind = "num"
        /\ ~Eq(Payload(reqs[w]).val[OptionalPath].val, I(167))

(***************************************************************************)
(* Properties of requests served in parallel (specification SpecParallel). *)
(***************************************************************************)
\* C21: under every interleaving of the stages of concurrent requests, each
\* request is answered as it is when it is processed alone, and a step of
\* one request leaves the record of every other request untouched.
IsolatedOutcome ==
    /\ [](\A w \in DOMAIN reqs :
              reqs[w].pc = "done" => reqs[w].response = solve_thermal(reqs[w].request))
    /\ [][\A w \in DOMAIN reqs, v \in DOMAIN reqs :
              (w # v /\ reqs'[w] # reqs[w]) => reqs'[v] = reqs[v]]_vars

\* two different requests were served side by side, one answered 200 and
\* the other rejected by a core function
ParallelOutcomesDiffer ==
    /\ DOMAIN reqs = ParallelWorkers
    /\ reqs[1].pc = "done"
    /\ reqs[2].pc = "done"
    /\ reqs[1].response.status = 200
    /\ reqs[2].response.status = 400
    /\ reqs[2].calls # <<>>

(***************************************************************************)
(* Properties of the core functions on special values (specification       *)
(* SpecFloat).                                                             *)
(***************************************************************************)
\* C23: a core function either returns a finite number or fails with
\* ValueError (the InvalidInput of the interface), whatever its arguments
\* are: it returns neither nan nor an infinity and raises nothing else.
FiniteOrInvalidInput ==
    core.done =>
        /\ core.out.ok => IsFinite(core.out.val)
        /\ ~core.out.ok => core.out.cls = "ValueError"

(***************************************************************************)
(* Properties of the reference case (specification SpecReference).         *)
(***************************************************************************)
\* C24: the reference request is answered 200 with a heat-sink resistance
\* strictly between 0.10 and 0.15 and a junction temperature strictly
\* between 55 and 65; its Reynolds number is below the laminar limit, its
\* m*L is not above the switch, and its convection resistance is the one
\* of the laminar correlation with the tanh fin efficiency.
ReferenceCase ==
    \A w \in Workers :
        LET r    == reqs[w]
            b    == r.response.body
            re   == Div(Mul(Field(r, "air.velocity"), r.fin_spacing),
                        Field(r, "air.kinematic_viscosity"))
            nu   == SiederTate(re, Field(r, "air.prandtl_number"), r.fin_spacing,
                               Field(r, "heat_sink.fin_height"))
            h    == Sig(Div(Mul(nu, Sig(Field(r, "air.thermal_conductivity"))),
                            Sig(Mul(I(2), r.fin_spacing))))
            m_l  == FinParameter(Field(r, "heat_sink.fin_height"), h,
                                 Field(r, "heat_sink.fin_thickness"),
                                 I(DefaultSinkConductivity))
        IN  (Answered(r) /\ Payload(r) = ReferencePayload) =>
              /\ r.response.status = 200
              /\ Lt(Q(10, 100), b.resistances.heat_sink)
              /\ Lt(b.resistances.heat_sink, Q(15, 100))
              /\ Lt(I(55), b.junction_temperature)
              /\ Lt(b.junction_temperature, I(65))
              /\ Lt(re, I(ReLaminarLimit))
              /\ Le(m_l, I(MLSwitch))
              /\ b.resistances.convection =
                     Dec4(Div(I(1), Sig(Mul(Sig(Mul(h, Sig(r.convection_area))),
                                            TanhBranch(m_l)))))

\* the reference request has been answered with a document
ReferenceAnswered ==
    \E w \in Workers :
        /\ Answered(reqs[w])
        /\ Payload(reqs[w]) = ReferencePayload
        /\ reqs[w].response.status = 200
        /\ reqs[w].calls = StageOrder

(***************************************************************************)
(* Properties of requests with non-finite literals (SpecNonFinite).        *)
(***************************************************************************)
PhysicalPaths ==
    {"processor.die_length", "processor.die_width",
     "heat_sink.sink_length", "heat_sink.sink_width", "heat_sink.base_thickness",
     "heat_sink.number_of_fins", "heat_sink.fin_thickness", "heat_sink.fin_height",
     "tim.thermal_conductivity", "tim.thickness",
     "air.velocity", "air.thermal_conductivity", "air.kinematic_viscosity",
     "air.prandtl_number"}

FinsFit(r) ==
    Lt(Mul(Field(r, "heat_sink.number_of_fins"), Field(r, "heat_sink.fin_thickness")),
       Field(r, "heat_sink.sink_width"))

PhysicalInvariants(r) ==
    /\ \A f \in PhysicalPaths : Lt(I(0), Field(r, f))
    /\ Lt(I(1), Field(r, "heat_sink.number_of_fins"))
    /\ FinsFit(r)

\* C26: every request answered with 200 had every required geometric,
\* material and air quantity > 0, number_of_fins > 1 and
\* number_of_fins * fin_thickness < sink_width; a payload that passes
\* validate with number_of_fins <= 1 or with fins filling the sink width is
\* answered with 400.
LayersGuaranteeInvariants ==
    \A w \in Workers :
        LET r == reqs[w]
        IN  /\ Succeeded(r) => PhysicalInvariants(r)
            /\ (Answered(r) /\ ThermalRequestSchema_validate(Payload(r)).ok
                  /\ (Le(Field(r, "heat_sink.number_of_fins"), I(1)) \/ ~FinsFit(r)))
               => r.response.status = 400

====
